---- MODULE Spec2Model ----
(***************************************************************************)
(* TowerHunt (fireball-ui/TwoPlayerGame): the move-search engine.          *)
(*                                                                         *)
(* The module models findBestMove / minimax / getTerminalNodeState of      *)
(* module MinimaxAB (src/modules/ReplayHistoryEventLoop.js, lines 272 to   *)
(* 453) as a machine that walks the game tree one call, one return at a    *)
(* time over a single board mutated in place.                              *)
(*                                                                         *)
(* GameState.js (GridCell, Player, PlayerState, BoardState, Move) and      *)
(* GameLogic.js (checkWin, getAllPossibleMoves) are not among the source   *)
(* files.  Their operations are modelled from the specification's          *)
(* contracts (sections 3, 4.1 to 4.3) with a small concrete rule set:      *)
(* towers move one row forward in their column, land on top of whatever    *)
(* stands on the target, turn round and are secured on the far edge.       *)
(***************************************************************************)
EXTENDS Integers, Sequences, FiniteSets, TLC

\* ---------------------------------------------------------------- sizes

\* Board height: the rows of the board (6 - cell.row in the heuristic).
BoardHeight == 6

\* Columns of the modelled board (the program's board has 6).
NumCols == 2

\* const max_search_depth = 4
max_search_depth == 4

\* Infinity of the search (Math.max, Math.min, <=, > only; never added to).
\* Every heuristic score lies strictly between -Infinity and Infinity.
Infinity == 1000000

NegInfinity == 0 - Infinity

\* The fixed weights of the heuristic.
TowerWeight == 10

SecureWeight == 10

MaterialWeight == 20

\* ------------------------------------------------------------ identities

\* PLAYER_ID
PLAYER_ID == [BOT |-> "bot", USER |-> "user"]

Null == "null"

NumCells == BoardHeight * NumCols

CellIds == 0 .. (NumCells - 1)

\* const column = index % 6; const row = Math.round((index - column) / 6);
CellColumn(id) == id % NumCols

CellRow(id) == (id - CellColumn(id)) \div NumCols

\* ------------------------------------------------------------ data model

\* GridCell state (position is derived from the id): the tower bottom to
\* top, the forward direction of the tower, the secured flag.
EmptyCell == [svgLayout |-> <<>>, direction |-> 0, dot |-> FALSE]

\* NEW_VAULT
NEW_VAULT == [self |-> 0, opponent |-> 0]

\* new Player(id, isMaximizing, turn)
Player(id, isMaximizing, turn) ==
    [id |-> id, isMaximizing |-> isMaximizing, turn |-> turn,
     lastHorizontal |-> FALSE, safetyTower |-> 0, vault |-> NEW_VAULT,
     winner |-> FALSE]

\* createPlayer: twoPlayer = [bot (maximizing, no turn), user (turn)]
createPlayer == << Player(PLAYER_ID.BOT, TRUE, FALSE), Player(PLAYER_ID.USER, FALSE, TRUE) >>

\* cell.svgLayout.at(-1): the owner of a cell, undefined for an empty cell
TopOwner(cell) ==
    IF Len(cell.svgLayout) = 0 THEN Null ELSE cell.svgLayout[Len(cell.svgLayout)]

\* twoPlayer.find(pred): the index of the first player with the flag
FindIndex(twoPlayer, field, value) ==
    IF twoPlayer[1][field] = value THEN 1
    ELSE IF twoPlayer[2][field] = value THEN 2 ELSE 0

\* Stones of one owner in a tower.
CountOwner(layout, owner) ==
    Cardinality({k \in 1 .. Len(layout) : layout[k] = owner})

OtherId(id) == IF id = PLAYER_ID.BOT THEN PLAYER_ID.USER ELSE PLAYER_ID.BOT

\* The far edge a player's towers head for: the user starts on rows 0 and
\* 1 with direction +1, the bot on the last two rows with direction -1.
SafetyRow(id) == IF id = PLAYER_ID.USER THEN BoardHeight - 1 ELSE 0

\* ------------------------------------------------- rules (collaborators)

\* A tower of the player stands on the cell and the cell in front of it
\* is on the board.
CanMove(boardState, player, id) ==
    LET cell == boardState.cells[id]
        row  == CellRow(id) + cell.direction
    IN  /\ TopOwner(cell) = player.id
        /\ cell.direction # 0
        /\ row \in 0 .. (BoardHeight - 1)

TargetOf(boardState, id) == id + boardState.cells[id].direction * NumCols

AllCellIds == [k \in 1 .. NumCells |-> k - 1]

\* getAllPossibleMoves(boardState, player): (source, target) pairs in cell
\* order; a pure function of its arguments; may be empty.
getAllPossibleMoves(boardState, player) ==
    LET srcs == SelectSeq(AllCellIds, LAMBDA id : CanMove(boardState, player, id))
    IN  [k \in 1 .. Len(srcs) |-> << srcs[k], TargetOf(boardState, srcs[k]) >>]

\* checkWin(boardState, player): the player holds enough secured towers or
\* enough captured material, against the configured winning rules.
checkWin(boardState, player, winningRules) ==
    \/ player.safetyTower >= winningRules.safetyZone
    \/ player.vault.opponent >= winningRules.materialOpponent

\* boardState.applyMoveAndTurn(src, tgt): one ply.  The source tower lands
\* on the target; it is secured and turns round on the mover's far edge;
\* capturing a tower credits the mover's vault; the turn flips.  Only the
\* two cells and the player pair change.
applyMoveAndTurn(boardState, src, tgt) ==
    LET srcCell  == boardState.cells[src]
        tgtCell  == boardState.cells[tgt]
        moverId  == TopOwner(srcCell)
        captures == Len(tgtCell.svgLayout) > 0 /\ TopOwner(tgtCell) # moverId
        secures  == CellRow(tgt) = SafetyRow(moverId) /\ ~srcCell.dot
        newTgt   == [svgLayout |-> tgtCell.svgLayout \o srcCell.svgLayout,
                     direction |-> IF secures THEN 0 - srcCell.direction
                                   ELSE srcCell.direction,
                     dot       |-> srcCell.dot \/ secures]
        turned(p) ==
            IF p.id = moverId
            THEN [p EXCEPT !.turn = ~p.turn,
                           !.lastHorizontal = FALSE,
                           !.safetyTower = p.safetyTower + (IF secures THEN 1 ELSE 0),
                           !.vault = IF captures
                                     THEN [self |-> p.vault.self
                                                    + CountOwner(tgtCell.svgLayout, moverId),
                                           opponent |-> p.vault.opponent
                                                    + CountOwner(tgtCell.svgLayout, OtherId(moverId))]
                                     ELSE p.vault]
            ELSE [p EXCEPT !.turn = ~p.turn]
    IN  [cells |-> [boardState.cells EXCEPT ![src] = EmptyCell, ![tgt] = newTgt],
         playerState |-> [k \in 1 .. 2 |-> turned(boardState.playerState[k])]]

\* gridCell.cloneInstance(): an independent copy of a cell, with its id
cloneCell(boardState, id) ==
    [id |-> id,
     svgLayout |-> boardState.cells[id].svgLayout,
     direction |-> boardState.cells[id].direction,
     dot |-> boardState.cells[id].dot]

\* boardState.undoMove(loggedMove): the two cells and the player pair are
\* put back from the snapshot.
undoMove(boardState, loggedMove) ==
    LET restore(c) == [svgLayout |-> c.svgLayout, direction |-> c.direction, dot |-> c.dot]
    IN  [cells |-> [boardState.cells EXCEPT
                        ![loggedMove.srcCell.id] = restore(loggedMove.srcCell),
                        ![loggedMove.tgtCell.id] = restore(loggedMove.tgtCell)],
         playerState |-> loggedMove.playerState]

\* ------------------------------------------------------- the evaluation

NewTally == [botTowers |-> 0, userTowers |-> 0,
             botTowerSecureWeight |-> 0, userTowerSecureWeight |-> 0]

\* Variant: the two secure weights are swapped between the sides.
TallyCellSwapped(tally, cell, row, botId, userId) ==
    LET t1 == IF TopOwner(cell) = botId
              THEN [tally EXCEPT
                      !.botTowers = @ + 1,
                      !.botTowerSecureWeight = @ + (IF cell.dot = TRUE THEN BoardHeight - row ELSE 0)]
              ELSE tally
    IN  IF TopOwner(cell) = userId
        THEN [t1 EXCEPT
                !.userTowers = @ + 1,
                !.userTowerSecureWeight = @ + (IF cell.dot = TRUE THEN row + 1 ELSE 0)]
        ELSE t1

\* The body of boardState.cells.forEach in getTerminalNodeState, for one cell.
TallyCell(tally, cell, row, botId, userId) ==
    LET t1 == IF TopOwner(cell) = botId
              THEN [tally EXCEPT
                      !.botTowers = @ + 1,
                      !.botTowerSecureWeight = @ + (IF cell.dot = TRUE THEN row + 1 ELSE 0)]
              ELSE tally
    IN  IF TopOwner(cell) = userId
        THEN [t1 EXCEPT
                !.userTowers = @ + 1,
                !.userTowerSecureWeight = @ + (IF cell.dot = TRUE THEN BoardHeight - row ELSE 0)]
        ELSE t1

RECURSIVE TallyFrom(_, _, _, _, _)
\* boardState.cells.forEach(...), cell k to the last cell
TallyFrom(boardState, k, tally, botId, userId) ==
    IF k >= NumCells THEN tally
    ELSE TallyFrom(boardState, k + 1,
                   TallyCell(tally, boardState.cells[k], CellRow(k), botId, userId),
                   botId, userId)

\* Variant: the material term is taken from the minimizer's side
\* (playerUser.vault.opponent - playerBot.vault.opponent).
HeuristicScoreMaterialReversed(boardState, playerBot, playerUser) ==
    LET t  == TallyFrom(boardState, 0, NewTally, playerBot.id, playerUser.id)
        s1 == 0 + (t.botTowers - t.userTowers) * TowerWeight
        s2 == s1 + (t.botTowerSecureWeight - t.userTowerSecureWeight) * SecureWeight
    IN  s2 + (playerUser.vault.opponent - playerBot.vault.opponent) * MaterialWeight

\* The score at the depth cutoff (the block under depth === max_search_depth).
HeuristicScore(boardState, playerBot, playerUser) ==
    LET t  == TallyFrom(boardState, 0, NewTally, playerBot.id, playerUser.id)
        s1 == 0 + (t.botTowers - t.userTowers) * TowerWeight
        s2 == s1 + (t.botTowerSecureWeight - t.userTowerSecureWeight) * SecureWeight
    IN  s2 + (playerBot.vault.opponent - playerUser.vault.opponent) * MaterialWeight

NoEvaluation == [isNull |-> TRUE, value |-> 0]

Evaluation(v) == [isNull |-> FALSE, value |-> v]

\* Variant: the minimizer's win is tested before the maximizer's.
getTerminalNodeStateUserFirst(boardState, depth, winningRules) ==
    LET playerBot  == boardState.playerState[FindIndex(boardState.playerState, "isMaximizing", TRUE)]
        playerUser == boardState.playerState[FindIndex(boardState.playerState, "isMaximizing", FALSE)]
    IN  IF checkWin(boardState, playerUser, winningRules) THEN Evaluation(NegInfinity)
        ELSE IF checkWin(boardState, playerBot, winningRules) THEN Evaluation(Infinity)
        ELSE IF depth = max_search_depth
             THEN Evaluation(HeuristicScore(boardState, playerBot, playerUser))
             ELSE NoEvaluation

\* Variant: the search is cut off where another configuration of the
\* search depth would cut it off (depth === 2).
getTerminalNodeStateShallow(boardState, depth, winningRules) ==
    LET playerBot  == boardState.playerState[FindIndex(boardState.playerState, "isMaximizing", TRUE)]
        playerUser == boardState.playerState[FindIndex(boardState.playerState, "isMaximizing", FALSE)]
    IN  IF checkWin(boardState, playerBot, winningRules) THEN Evaluation(Infinity)
        ELSE IF checkWin(boardState, playerUser, winningRules) THEN Evaluation(NegInfinity)
        ELSE IF depth = max_search_depth - 2
             THEN Evaluation(HeuristicScore(boardState, playerBot, playerUser))
             ELSE NoEvaluation

\* Variant: the cutoff is tested with depth > max_search_depth, one ply late.
getTerminalNodeStateLateCutoff(boardState, depth, winningRules) ==
    LET playerBot  == boardState.playerState[FindIndex(boardState.playerState, "isMaximizing", TRUE)]
        playerUser == boardState.playerState[FindIndex(boardState.playerState, "isMaximizing", FALSE)]
    IN  IF checkWin(boardState, playerBot, winningRules) THEN Evaluation(Infinity)
        ELSE IF checkWin(boardState, playerUser, winningRules) THEN Evaluation(NegInfinity)
        ELSE IF depth > max_search_depth
             THEN Evaluation(HeuristicScore(boardState, playerBot, playerUser))
             ELSE NoEvaluation

\* getTerminalNodeState(boardState, depth): a score, or null for a node to expand
getTerminalNodeState(boardState, depth, winningRules) ==
    LET playerBot  == boardState.playerState[FindIndex(boardState.playerState, "isMaximizing", TRUE)]
        playerUser == boardState.playerState[FindIndex(boardState.playerState, "isMaximizing", FALSE)]
    IN  IF checkWin(boardState, playerBot, winningRules) THEN Evaluation(Infinity)
        ELSE IF checkWin(boardState, playerUser, winningRules) THEN Evaluation(NegInfinity)
        ELSE IF depth = max_search_depth
             THEN Evaluation(HeuristicScore(boardState, playerBot, playerUser))
             ELSE NoEvaluation

\* ------------------------------------------------------------ the search

Max(a, b) == IF a >= b THEN a ELSE b

Min(a, b) == IF a <= b THEN a ELSE b

NullMove == << >>

NoLoggedMove ==
    [srcCell |-> [id |-> 0 - 1, svgLayout |-> <<>>, direction |-> 0, dot |-> FALSE],
     tgtCell |-> [id |-> 0 - 1, svgLayout |-> <<>>, direction |-> 0, dot |-> FALSE],
     playerState |-> <<>>]

\* Variant: the snapshot clones the source cell twice (move[0] for move[1]).
NewMoveSourceTwice(boardState, move) ==
    [srcCell |-> cloneCell(boardState, move[1]),
     tgtCell |-> cloneCell(boardState, move[1]),
     playerState |-> boardState.playerState]

\* new Move(move[0].cloneInstance(), move[1].cloneInstance(),
\*          boardState.playerState.cloneInstance())
NewMove(boardState, move) ==
    [srcCell |-> cloneCell(boardState, move[1]),
     tgtCell |-> cloneCell(boardState, move[2]),
     playerState |-> boardState.playerState]

\* One activation of findBestMove or minimax: its locals and where it stands.
\*   pc "enter": minimax called, nothing evaluated yet
\*   pc "loop" : in the for loop, possibleMoves[i] is the next move (or the
\*               move being searched, when a callee is above this frame)
\*   pc "break": the loop was left by the pruning break
Frame(fn, pc, depth, alpha, beta) ==
    [fn |-> fn, pc |-> pc, depth |-> depth, alpha |-> alpha, beta |-> beta,
     maximizing |-> TRUE, possibleMoves |-> <<>>, i |-> 1,
     best |-> NegInfinity, best_move |-> NullMove, loggedMove |-> NoLoggedMove]

\* ------------------------------------------------------------- the state

VARIABLES
    boardState,    \* the board the search works on: [cells, playerState]
    winningRules,  \* the configured winning rules checkWin tests against
    stack,         \* the activations: findBestMove at the bottom, minimax above
    status,        \* "idle" | "running" | "returned" | "thrown"
    result,        \* the move findBestMove returned, or the error it threw
    preCall,       \* the board as it was when findBestMove was called
    retval,        \* the value the last minimax call returned to its caller
    counts,        \* calls so far: generated, applied, undone, evaluated, pruned
    rootLog,       \* the score minimax returned for each root move so far
    domBoardState, \* the live board of the page: cells, playerState and its two flags
    classList,     \* the css classes of the board cells: select, hover, mark, click
    settings,      \* the Settings instance: winning rules and search rules
    isFatalError,  \* let isFatalError of main.js
    terminated,    \* which workers have been terminated: [ai, db]
    tasks,         \* the activations of playUserMove / playBotMove, suspended at an await
    calls,         \* the dispatchWorker calls made so far, with the promise each returned
    listeners,     \* the event listeners registered on the worker, in registration order
    workerInbox,   \* messages posted to the worker it has not handled yet
    mainInbox,     \* events the worker raised that the page has not dispatched yet
    journal,       \* history of the session: what was applied, what failed
    replayLog,     \* the records of the ReplayLog object store
    instances,     \* LoggerReader.instances: the reader of each game id
    loggerWriter,  \* the LoggerWriter of the page: _gameId and _move
    now,           \* the value Date.now() returned last
    updates,       \* the activations of LoggerWriter.update, suspended at an await
    cursor,        \* the replay of one LoggerReader: its generator and fetchRecord calls
    restore        \* Settings.restoreFactoryDefault: the settings store and the call

\* The state of the search (the worker side of one findBestMove call).
searchVars == << boardState, winningRules, stack, status, result, preCall, retval, counts, rootLog >>

\* The state of the page.
appVars == << domBoardState, classList, settings, isFatalError, terminated, tasks,
              calls, listeners, workerInbox, mainInbox, journal >>

\* The state of the database clients: the replay log with its writer and
\* readers, and the settings store.
dbVars == << replayLog, instances, loggerWriter, now, updates, cursor, restore >>

vars == << searchVars, appVars, dbVars >>

Top == stack[Len(stack)]

\* Variant: the maximizer keeps the value of the last child instead of
\* the largest (max_eval = evaluate).
MaximizerStepKeepsLast(f, evaluate) ==
    LET max_eval == evaluate
        alpha    == Max(f.alpha, max_eval)
    IN  [f EXCEPT !.best = max_eval, !.alpha = alpha, !.loggedMove = NoLoggedMove,
                  !.i = IF f.beta <= alpha THEN f.i ELSE f.i + 1,
                  !.pc = IF f.beta <= alpha THEN "break" ELSE "loop"]

\* Variant: the maximizer only prunes on beta < alpha, so it goes on
\* with the next sibling when the window has closed to a point.
MaximizerStepStrictCut(f, evaluate) ==
    LET max_eval == Max(f.best, evaluate)
        alpha    == Max(f.alpha, max_eval)
    IN  [f EXCEPT !.best = max_eval, !.alpha = alpha, !.loggedMove = NoLoggedMove,
                  !.i = IF f.beta < alpha THEN f.i ELSE f.i + 1,
                  !.pc = IF f.beta < alpha THEN "break" ELSE "loop"]

\* The tail of one pass of the maximizer's loop, after undoMove:
\*   max_eval = Math.max(max_eval, evaluate); alpha = Math.max(alpha, max_eval);
\*   if (beta <= alpha) break;
MaximizerStep(f, evaluate) ==
    LET max_eval == Max(f.best, evaluate)
        alpha    == Max(f.alpha, max_eval)
    IN  [f EXCEPT !.best = max_eval, !.alpha = alpha, !.loggedMove = NoLoggedMove,
                  !.i = IF f.beta <= alpha THEN f.i ELSE f.i + 1,
                  !.pc = IF f.beta <= alpha THEN "break" ELSE "loop"]

\* Variant: the minimizer's pruning test is written the wrong way round
\* (alpha <= beta), so the loop is left while the window is still open.
MinimizerStepInverted(f, evaluate) ==
    LET min_eval == Min(f.best, evaluate)
        beta     == Min(f.beta, min_eval)
    IN  [f EXCEPT !.best = min_eval, !.beta = beta, !.loggedMove = NoLoggedMove,
                  !.i = IF f.alpha <= beta THEN f.i ELSE f.i + 1,
                  !.pc = IF f.alpha <= beta THEN "break" ELSE "loop"]

\* The tail of one pass of the minimizer's loop, after undoMove:
\*   min_eval = Math.min(min_eval, evaluate); beta = Math.min(beta, min_eval);
\*   if (beta <= alpha) break;
MinimizerStep(f, evaluate) ==
    LET min_eval == Min(f.best, evaluate)
        beta     == Min(f.beta, min_eval)
    IN  [f EXCEPT !.best = min_eval, !.beta = beta, !.loggedMove = NoLoggedMove,
                  !.i = IF beta <= f.alpha THEN f.i ELSE f.i + 1,
                  !.pc = IF beta <= f.alpha THEN "break" ELSE "loop"]

\* Variant: the pruning test and its break stand before undoMove, so a
\* pruned node returns with its last move still on the board.
ResumeMinimaxBreakFirst(b, f, evaluate) ==
    LET g == IF f.maximizing THEN MaximizerStep(f, evaluate)
             ELSE MinimizerStep(f, evaluate)
    IN  IF g.pc = "break"
        THEN [boardState |-> b, frame |-> g, undone |-> 0]
        ELSE [boardState |-> undoMove(b, f.loggedMove), frame |-> g, undone |-> 1]

\* minimax's loop body from the return of the recursive call on:
\* boardState.undoMove(loggedMove), then the update and the pruning test.
ResumeMinimax(b, f, evaluate) ==
    [boardState |-> undoMove(b, f.loggedMove),
     frame |-> IF f.maximizing THEN MaximizerStep(f, evaluate)
               ELSE MinimizerStep(f, evaluate),
     undone |-> 1]

\* Variant: the incumbent is replaced on >= instead of >.
RootStepNonStrict(f, score_for_this_move) ==
    IF score_for_this_move >= f.best
    THEN [f EXCEPT !.best = score_for_this_move, !.best_move = f.possibleMoves[f.i],
                   !.loggedMove = NoLoggedMove, !.i = f.i + 1]
    ELSE [f EXCEPT !.loggedMove = NoLoggedMove, !.i = f.i + 1]

\* if (score_for_this_move > best_score) { best_score = ...; best_move = move; }
RootStep(f, score_for_this_move) ==
    IF score_for_this_move > f.best
    THEN [f EXCEPT !.best = score_for_this_move, !.best_move = f.possibleMoves[f.i],
                   !.loggedMove = NoLoggedMove, !.i = f.i + 1]
    ELSE [f EXCEPT !.loggedMove = NoLoggedMove, !.i = f.i + 1]

\* Variant: findBestMove never undoes the root move it tried.
ResumeRootNoUndo(b, f, score_for_this_move) ==
    [boardState |-> b, frame |-> RootStep(f, score_for_this_move), undone |-> 0]

\* findBestMove's loop body from the return of minimax on.
ResumeRoot(b, f, score_for_this_move) ==
    [boardState |-> undoMove(b, f.loggedMove),
     frame |-> RootStep(f, score_for_this_move),
     undone |-> 1]

\* Variant: return best_move, without the fallback to the first candidate.
RootResultNoFallback(f) == f.best_move

\* return best_move === null ? possibleMoves[0] : best_move;
RootResult(f) ==
    IF f.best_move = NullMove THEN f.possibleMoves[1] ELSE f.best_move

\* The loop body up to the recursive call: the snapshot is taken, the move
\* applied to the board, and minimax called one ply deeper.
ApplyAndCall(depth, alpha, beta) ==
    LET f    == Top
        move == f.possibleMoves[f.i]
    IN  /\ boardState' = applyMoveAndTurn(boardState, move[1], move[2])
        /\ stack' = [stack EXCEPT ![Len(stack)].loggedMove = NewMove(boardState, move)]
                    \o << Frame("minimax", "enter", depth, alpha, beta) >>
        /\ counts' = [counts EXCEPT !.applied = @ + 1]
        /\ UNCHANGED << winningRules, status, result, preCall, retval, rootLog, appVars, dbVars >>

\* minimax returns a value: its activation ends and the caller goes on
\* with the rest of its loop body (undo, update, pruning test).
ReturnToCaller(value, evaluated) ==
    LET caller == stack[Len(stack) - 1]
        r == IF caller.fn = "minimax"
             THEN ResumeMinimax(boardState, caller, value)
             ELSE ResumeRoot(boardState, caller, value)
    IN  /\ boardState' = r.boardState
        /\ stack' = SubSeq(stack, 1, Len(stack) - 2) \o << r.frame >>
        /\ retval' = value
        /\ counts' = [counts EXCEPT !.undone = @ + r.undone,
                                    !.evaluated = @ + evaluated,
                                    !.pruned = @ + (IF r.frame.pc = "break" THEN 1 ELSE 0)]
        /\ rootLog' = IF caller.fn = "findBestMove" THEN Append(rootLog, value)
                      ELSE rootLog
        /\ UNCHANGED << winningRules, status, result, preCall, appVars, dbVars >>

\* ----------------------------------------------------------- findBestMove

\* Variant: the turn is not checked; the loop starts for the minimizing player.
FindBestMoveNoTurnCheck ==
    /\ status = "idle"
    /\ LET player == boardState.playerState[FindIndex(boardState.playerState, "turn", TRUE)]
           possibleMoves == getAllPossibleMoves(boardState, player)
       IN  /\ player.isMaximizing = FALSE
           /\ Len(possibleMoves) # 0
           /\ stack' = << [Frame("findBestMove", "loop", 0 - 1, NegInfinity, Infinity)
                              EXCEPT !.possibleMoves = possibleMoves] >>
    /\ status' = "running"
    /\ counts' = [counts EXCEPT !.generated = @ + 1]
    /\ UNCHANGED << boardState, winningRules, result, preCall, retval, rootLog, appVars, dbVars >>

\* findBestMove called while the minimizing player has the turn: it throws.
FindBestMoveWrongTurn ==
    /\ status = "idle"
    /\ LET player == boardState.playerState[FindIndex(boardState.playerState, "turn", TRUE)]
       IN  player.isMaximizing = FALSE
    /\ status' = "thrown"
    /\ result' = "findBestMove must be invoked for the bot AI opponent (maximizing player)."
    /\ UNCHANGED << boardState, winningRules, stack, preCall, retval, counts, rootLog, appVars, dbVars >>

\* Variant: without a move findBestMove returns null (as its @returns says).
FindBestMoveNoMovesReturnsNull ==
    /\ status = "idle"
    /\ LET player == boardState.playerState[FindIndex(boardState.playerState, "turn", TRUE)]
       IN  /\ player.isMaximizing # FALSE
           /\ Len(getAllPossibleMoves(boardState, player)) = 0
    /\ status' = "returned"
    /\ result' = NullMove
    /\ counts' = [counts EXCEPT !.generated = @ + 1]
    /\ UNCHANGED << boardState, winningRules, stack, preCall, retval, rootLog, appVars, dbVars >>

\* findBestMove called on a position without a move for the bot: it throws.
FindBestMoveNoMoves ==
    /\ status = "idle"
    /\ LET player == boardState.playerState[FindIndex(boardState.playerState, "turn", TRUE)]
       IN  /\ player.isMaximizing # FALSE
           /\ Len(getAllPossibleMoves(boardState, player)) = 0
    /\ status' = "thrown"
    /\ result' = "could not determine possible moves"
    /\ counts' = [counts EXCEPT !.generated = @ + 1]
    /\ UNCHANGED << boardState, winningRules, stack, preCall, retval, rootLog, appVars, dbVars >>

\* findBestMove called on a position with moves for the bot: the loop starts.
FindBestMoveStart ==
    /\ status = "idle"
    /\ LET player == boardState.playerState[FindIndex(boardState.playerState, "turn", TRUE)]
           possibleMoves == getAllPossibleMoves(boardState, player)
       IN  /\ player.isMaximizing # FALSE
           /\ Len(possibleMoves) # 0
           /\ stack' = << [Frame("findBestMove", "loop", 0 - 1, NegInfinity, Infinity)
                              EXCEPT !.possibleMoves = possibleMoves] >>
    /\ status' = "running"
    /\ counts' = [counts EXCEPT !.generated = @ + 1]
    /\ UNCHANGED << boardState, winningRules, result, preCall, retval, rootLog, appVars, dbVars >>

\* One pass of findBestMove's loop up to the call minimax(boardState, 0, -Infinity, Infinity).
RootApply ==
    /\ status = "running"
    /\ Top.fn = "findBestMove"
    /\ Top.i <= Len(Top.possibleMoves)
    /\ ApplyAndCall(0, NegInfinity, Infinity)

\* The loop of findBestMove is over: the move is returned.
RootReturn ==
    /\ status = "running"
    /\ Top.fn = "findBestMove"
    /\ Top.i > Len(Top.possibleMoves)
    /\ status' = "returned"
    /\ result' = RootResult(Top)
    /\ stack' = << >>
    /\ UNCHANGED << boardState, winningRules, preCall, retval, counts, rootLog, appVars, dbVars >>

\* ---------------------------------------------------------------- minimax

\* minimax entered on a terminal node (a win, or the depth cutoff): it
\* returns the evaluation without generating a move.
MinimaxTerminal ==
    /\ status = "running"
    /\ Top.fn = "minimax" /\ Top.pc = "enter"
    /\ LET evaluation == getTerminalNodeState(boardState, Top.depth, winningRules)
       IN  /\ evaluation.isNull = FALSE
           /\ ReturnToCaller(evaluation.value, 1)

\* Variant: both loops start from 0 (let max_eval = 0 / let min_eval = 0).
MinimaxExpandZeroStart ==
    /\ status = "running"
    /\ Top.fn = "minimax" /\ Top.pc = "enter"
    /\ getTerminalNodeState(boardState, Top.depth, winningRules).isNull
    /\ LET currentPlayer == boardState.playerState[FindIndex(boardState.playerState, "turn", TRUE)]
       IN  stack' = [stack EXCEPT ![Len(stack)] =
                        [@ EXCEPT !.pc = "loop",
                                  !.maximizing = (currentPlayer.isMaximizing = TRUE),
                                  !.best = 0,
                                  !.possibleMoves = getAllPossibleMoves(boardState, currentPlayer)]]
    /\ counts' = [counts EXCEPT !.generated = @ + 1, !.evaluated = @ + 1]
    /\ UNCHANGED << boardState, winningRules, status, result, preCall, retval, rootLog, appVars, dbVars >>

\* minimax entered on a node to expand: the mover's moves are generated
\* and the loop starts with max_eval = -Infinity or min_eval = Infinity.
MinimaxExpand ==
    /\ status = "running"
    /\ Top.fn = "minimax" /\ Top.pc = "enter"
    /\ getTerminalNodeState(boardState, Top.depth, winningRules).isNull
    /\ LET currentPlayer == boardState.playerState[FindIndex(boardState.playerState, "turn", TRUE)]
       IN  stack' = [stack EXCEPT ![Len(stack)] =
                        [@ EXCEPT !.pc = "loop",
                                  !.maximizing = (currentPlayer.isMaximizing = TRUE),
                                  !.best = IF currentPlayer.isMaximizing = TRUE
                                           THEN NegInfinity ELSE Infinity,
                                  !.possibleMoves = getAllPossibleMoves(boardState, currentPlayer)]]
    /\ counts' = [counts EXCEPT !.generated = @ + 1, !.evaluated = @ + 1]
    /\ UNCHANGED << boardState, winningRules, status, result, preCall, retval, rootLog, appVars, dbVars >>

\* One pass of minimax's loop up to the call minimax(boardState, depth + 1, alpha, beta).
MinimaxApply ==
    /\ status = "running"
    /\ Top.fn = "minimax" /\ Top.pc = "loop"
    /\ Top.i <= Len(Top.possibleMoves)
    /\ ApplyAndCall(Top.depth + 1, Top.alpha, Top.beta)

\* minimax's loop is over (all moves tried, or the pruning break):
\* return max_eval / return min_eval.
MinimaxReturn ==
    /\ status = "running"
    /\ Top.fn = "minimax"
    /\ \/ Top.pc = "loop" /\ Top.i > Len(Top.possibleMoves)
       \/ Top.pc = "break"
    /\ ReturnToCaller(Top.best, 0)

\* ------------------------------------------------------ the page at load

NoCell == 0 - 1

\* cells.filter((cell) => cell.row === row).forEach((cell) => {
\*     cell.svgLayout.push(id); cell.direction = direction; })
PlaceRow(cells, row, id, direction) ==
    [c \in CellIds |->
        IF CellRow(c) = row
        THEN [cells[c] EXCEPT !.svgLayout = Append(@, id), !.direction = direction]
        ELSE cells[c]]

\* The four placements of createBoard and of resetGame: the user on rows
\* 0 and 1 with direction 1, the bot on rows 6 - 1 and 6 - 2 with -1.
PlacePieces(cells) ==
    LET c1 == PlaceRow(cells, 0, PLAYER_ID.USER, 1)
        c2 == PlaceRow(c1, 1, PLAYER_ID.USER, 1)
        c3 == PlaceRow(c2, BoardHeight - 1, PLAYER_ID.BOT, 0 - 1)
    IN  PlaceRow(c3, BoardHeight - 2, PLAYER_ID.BOT, 0 - 1)

\* createBoard(domBoard): new GridCell for every cell, new BoardState with
\* createPlayer(), then the pieces.  Board events start enabled and the
\* page is not waiting for the worker.
createBoard ==
    [cells |-> PlacePieces([c \in CellIds |-> EmptyCell]),
     playerState |-> createPlayer,
     disableBoardEvents |-> FALSE,
     waitForWebWorker |-> FALSE]

\* The cells carrying each css class, and the board's filterGray: at
\* load no cell carries a class.
NoClasses == [select |-> {}, hover |-> {}, mark |-> {}, click |-> {}, filterGray |-> FALSE]

\* The factory settings: winning rules, search rules and the three
\* groups of weights of the evaluation function.
factorySettings ==
    [winningRules |-> [safetyZone |-> 1, materialOpponent |-> 6],
     searchRules |-> [depth |-> 4, timeout |-> 10],
     materialAdvantageConquered |-> [totalWeight |-> 10],
     safetyZoneProximity |-> [weightRowDistance |-> << 5, 4, 3, 2, 1 >>, totalWeight |-> 10],
     materialAdvantageAccounted |-> [totalWeight |-> 20]]

\* History of a session: the user moves played and the moves applied to
\* the live board so far; whether a playBotMove has thrown on its
\* response; the calls whose response playBotMove accepted as a move,
\* refused, and applied.
NewJournal == [userMoves |-> 0, restarts |-> 0, applied |-> 0, aiFailed |-> FALSE,
               accepted |-> {}, refused |-> {}, botApplied |-> {}]

\* The database clients at rest: an empty replay log, no reader, the
\* writer of a game not begun, no replay and no restore under way.
DbIdle ==
    /\ replayLog = {}
    /\ instances = << >>
    /\ loggerWriter = [gameId |-> 0, move |-> 0]
    /\ now = 0
    /\ updates = << >>
    /\ cursor = << >>
    /\ restore = << >>

\* The page after the load handler: the board created, both workers
\* spawned, the handlers installed, nothing dispatched yet.
AppInit ==
    /\ domBoardState = createBoard
    /\ classList = NoClasses
    /\ isFatalError = FALSE
    /\ terminated = [ai |-> FALSE, db |-> FALSE]
    /\ tasks = << >>
    /\ calls = << >>
    /\ listeners = << >>
    /\ workerInbox = << >>
    /\ mainInbox = << >>
    /\ journal = NewJournal

\* ------------------------------------------------------- initial states

Tower(layout, direction, dot) == [svgLayout |-> layout, direction |-> direction, dot |-> dot]

\* A single user piece heading up the board, a single bot piece heading
\* down (createBoard: direction 1 for the user, -1 for the bot).
UserPiece == Tower(<< PLAYER_ID.USER >>, 1, FALSE)

BotPiece == Tower(<< PLAYER_ID.BOT >>, 0 - 1, FALSE)

\* A column of the board: the placed towers by row, every other row empty.
Column(placed) ==
    [r \in 0 .. (BoardHeight - 1) |-> IF r \in DOMAIN placed THEN placed[r] ELSE EmptyCell]

\* The positions of one column the searched boards are built from.
ColumnConfigs ==
    << Column(1 :> UserPiece @@ 4 :> BotPiece),
       Column(2 :> UserPiece @@ 3 :> BotPiece),
       Column(2 :> BotPiece @@ 4 :> UserPiece),
       Column(1 :> BotPiece @@ 3 :> UserPiece),
       Column(1 :> Tower(<< PLAYER_ID.BOT >>, 1, TRUE) @@ 2 :> UserPiece),
       Column(3 :> BotPiece @@ 4 :> Tower(<< PLAYER_ID.USER >>, 0 - 1, TRUE)),
       Column(<< >>),
       Column(2 :> Tower(<< PLAYER_ID.BOT, PLAYER_ID.USER >>, 1, FALSE)),
       Column(0 :> UserPiece @@ 4 :> BotPiece @@ 5 :> BotPiece) >>

\* The stones (cell, height) of the other side lying in towers of `id`.
CapturedStones(cells, id) ==
    { s \in UNION { { << c, k >> : k \in 1 .. Len(cells[c].svgLayout) } : c \in CellIds } :
        /\ TopOwner(cells[s[1]]) = id
        /\ cells[s[1]].svgLayout[s[2]] = OtherId(id) }

\* The player pair that goes with a position: a secured tower counted
\* for its owner, the stones under a tower credited to its owner's vault.
PlayersFor(cells, turnId) ==
    [k \in 1 .. 2 |->
        [createPlayer[k] EXCEPT
            !.turn = (createPlayer[k].id = turnId),
            !.safetyTower = Cardinality({c \in CellIds :
                                TopOwner(cells[c]) = createPlayer[k].id /\ cells[c].dot}),
            !.vault = [self |-> 0,
                       opponent |-> Cardinality(CapturedStones(cells, createPlayer[k].id))]]]

BoardOf(config, turnId) ==
    LET cells == [c \in CellIds |-> ColumnConfigs[config[CellColumn(c)]][CellRow(c)]]
    IN  [cells |-> cells, playerState |-> PlayersFor(cells, turnId)]

\* Winning rules: the factory defaults, and a stricter configured pair.
WinningRulesSet ==
    { [safetyZone |-> 1, materialOpponent |-> 6],
      [safetyZone |-> 2, materialOpponent |-> 2] }

Init ==
    /\ DbIdle
    /\ \E config \in [0 .. (NumCols - 1) -> 1 .. Len(ColumnConfigs)],
          turnId \in {PLAYER_ID.BOT, PLAYER_ID.USER} :
            boardState = BoardOf(config, turnId)
    /\ winningRules \in WinningRulesSet
    /\ stack = << >>
    /\ status = "idle"
    /\ result = Null
    /\ preCall = boardState
    /\ retval = 0
    /\ counts = [generated |-> 0, applied |-> 0, undone |-> 0, evaluated |-> 0, pruned |-> 0]
    /\ rootLog = << >>
    /\ AppInit
    /\ settings = factorySettings

Next ==
    \/ FindBestMoveWrongTurn
    \/ FindBestMoveNoMoves
    \/ FindBestMoveStart
    \/ RootApply
    \/ RootReturn
    \/ MinimaxTerminal
    \/ MinimaxExpand
    \/ MinimaxApply
    \/ MinimaxReturn

Spec == Init /\ [][Next]_vars

\* findBestMove is a synchronous function: once called, the engine runs
\* it step after step until it returns or throws.
FairSpec == Init /\ [][Next]_vars /\ WF_vars(Next)

\* ========================================================== the boundary
\* dispatchWorker (module AsyncAPIWrapper, src/modules/SvgRender.js lines 280
\* to 373): a request posted to a worker, raced against a timer.

\* A payload: response.message of an envelope, or the text of an Error.
Message(kind, ids, text) == [kind |-> kind, ids |-> ids, text |-> text]

NullMessage == Message("null", << >>, "")

\* workerMessageScheme = { request: { type: "", parameter: [] },
\*                         response: { error: false, message: null } }
\* An envelope is held as its own top-level keys and, for each leaf the
\* comparator looks at, the class Object.prototype.toString reports and the
\* value.  `id` is history only: the call a posted request belongs to,
\* carried along by whatever answers it; no code reads it.
workerMessageScheme ==
    [id |-> 0,
     keys |-> {"request", "response"},
     typeTag |-> "String", type |-> "",
     parameterTag |-> "Array", parameter |-> << >>,
     errorTag |-> "Boolean", error |-> FALSE,
     message |-> NullMessage]

\* const defaultTimeout = 5000
defaultTimeout == 5000

\* Variant: the class of response.error is not compared.
messageSchemeComparatorNoErrorClass(object) ==
    IF Cardinality(workerMessageScheme.keys) # Cardinality(object.keys) THEN "false"
    ELSE IF "request" \notin object.keys THEN "throws"
    ELSE IF object.typeTag # workerMessageScheme.typeTag THEN "false"
    ELSE IF object.parameterTag # workerMessageScheme.parameterTag THEN "false"
    ELSE IF "response" \notin object.keys THEN "throws"
    ELSE "true"

\* messageSchemeComparator(object): "true", "false", or "throws" (the
\* TypeError of reading a property of undefined).  The number of keys is
\* compared; the forEach over the keys has no effect (its return leaves
\* the callback only); then object.request.type, object.request.parameter
\* and object.response.error are read in this order, each compared by
\* class with the scheme's, the first mismatch ending the test.
messageSchemeComparator(object) ==
    IF Cardinality(workerMessageScheme.keys) # Cardinality(object.keys) THEN "false"
    ELSE IF "request" \notin object.keys THEN "throws"
    ELSE IF object.typeTag # workerMessageScheme.typeTag THEN "false"
    ELSE IF object.parameterTag # workerMessageScheme.parameterTag THEN "false"
    ELSE IF "response" \notin object.keys THEN "throws"
    ELSE IF object.errorTag # workerMessageScheme.errorTag THEN "false"
    ELSE "true"

\* The promise dispatchWorker returned (the race), as settled so far.
Pending == [state |-> "pending", value |-> workerMessageScheme]

Resolved(respMsg) == [state |-> "resolved", value |-> respMsg]

\* reject(new Error(text))
Rejected(text) ==
    [state |-> "rejected",
     value |-> [workerMessageScheme EXCEPT !.message = Message("Error", << >>, text)]]

\* Variant: the timeout response is not tagged as an error.
timeoutMessageNoError ==
    [workerMessageScheme EXCEPT !.message = Message("String", << >>, "timeout")]

\* timeoutMessage: structuredClone(workerMessageScheme), response.error =
\* true, response.message = "timeout"
timeoutMessage ==
    [workerMessageScheme EXCEPT !.error = TRUE,
                                !.message = Message("String", << >>, "timeout")]

\* One call of dispatchWorker: its arguments, the timer, the promise, and
\* as history what settled it, whether its request was posted, whether an
\* event of the worker reached one of its listeners, and whether the timer
\* fired before any did, and which earlier calls had already ended by
\* timeout when this one was made.
NewCall(message, timeout) ==
    [message |-> message, timeout |-> timeout, timer |-> "armed",
     outcome |-> Pending, settledBy |-> "none",
     posted |-> FALSE, heard |-> FALSE, timerFirst |-> FALSE,
     after |-> {k \in 1 .. Len(calls) : calls[k].settledBy = "timeout"}]

\* dispatchWorker(worker, message, timeout): both listeners are added,
\* the request is validated and posted (or the promise rejected from the
\* catch), the timer is started.
dispatchWorker(message, timeout) ==
    LET id    == Len(calls) + 1
        valid == messageSchemeComparator(message) = "true"
    IN  /\ listeners' = listeners \o << [type |-> "message", call |-> id],
                                        [type |-> "error", call |-> id] >>
        /\ workerInbox' = IF valid /\ ~terminated.ai
                          THEN Append(workerInbox, [message EXCEPT !.id = id])
                          ELSE workerInbox
        /\ calls' = Append(calls,
                      [NewCall(message, timeout) EXCEPT
                          !.posted = valid,
                          !.outcome = IF valid THEN Pending
                                      ELSE Rejected("Caught exception in dispatchWorker"),
                          !.settledBy = IF valid THEN "none" ELSE "request"])

\* Variant: an invalid response is not rejected, resolve(respMsg) settles
\* the promise.
messageEventHandlerNoReject(call, respMsg) ==
    LET valid == messageSchemeComparator(respMsg)
    IN  IF call.outcome.state # "pending" \/ valid = "throws"
        THEN [call EXCEPT !.heard = TRUE]
        ELSE [call EXCEPT !.heard = TRUE,
                          !.outcome = Resolved(respMsg),
                          !.settledBy = "message"]

\* messageEventHandler(event) of one call: the listener has removed
\* itself; an invalid response rejects, after which resolve(respMsg) is
\* without effect; a valid one resolves; when the comparator throws the
\* handler ends there and the promise is left as it was.
messageEventHandler(call, respMsg) ==
    LET valid == messageSchemeComparator(respMsg)
    IN  IF call.outcome.state # "pending" \/ valid = "throws"
        THEN [call EXCEPT !.heard = TRUE]
        ELSE [call EXCEPT !.heard = TRUE,
                          !.outcome = IF valid = "false"
                                      THEN Rejected("invalid response message format for worker")
                                      ELSE Resolved(respMsg),
                          !.settledBy = "message"]

\* errorEventHandler(event) of one call: the listener has removed itself;
\* the promise is rejected.
errorEventHandler(call) ==
    IF call.outcome.state # "pending"
    THEN [call EXCEPT !.heard = TRUE]
    ELSE [call EXCEPT !.heard = TRUE,
                      !.outcome = Rejected("Uncaught error for worker"),
                      !.settledBy = "error"]

\* The calls with a listener for events of this type.
Listening(type) ==
    {listeners[k].call : k \in {j \in 1 .. Len(listeners) : listeners[j].type = type}}

\* window "error" handler: isFatalError = true, then the console.error
\* lines, of which console.error(error.filename) names a binding `error`
\* the module does not have: the handler ends there with a ReferenceError,
\* before the two terminate() calls.
WindowErrorHandler ==
    /\ isFatalError' = TRUE
    /\ terminated' = terminated

\* The page dispatches a message event of the worker: every message
\* listener registered at that moment runs on it.  A handler in which the
\* comparator throws ends with an uncaught exception, reported to the
\* window "error" handler.
MessageEvent ==
    /\ mainInbox # << >>
    /\ Head(mainInbox).type = "message"
    /\ LET respMsg == Head(mainInbox).data
           heard   == Listening("message")
       IN  /\ calls' = [k \in 1 .. Len(calls) |->
                          IF k \in heard THEN messageEventHandler(calls[k], respMsg)
                          ELSE calls[k]]
           /\ IF heard # {} /\ messageSchemeComparator(respMsg) = "throws"
              THEN WindowErrorHandler
              ELSE UNCHANGED << isFatalError, terminated >>
    /\ listeners' = SelectSeq(listeners, LAMBDA l : l.type # "message")
    /\ mainInbox' = Tail(mainInbox)
    /\ UNCHANGED << searchVars, dbVars, domBoardState, classList, settings, tasks, workerInbox, journal >>

\* The page dispatches an error event of the worker: every error listener
\* registered at that moment runs.
ErrorEvent ==
    /\ mainInbox # << >>
    /\ Head(mainInbox).type = "error"
    /\ calls' = [k \in 1 .. Len(calls) |->
                    IF k \in Listening("error") THEN errorEventHandler(calls[k])
                    ELSE calls[k]]
    /\ listeners' = SelectSeq(listeners, LAMBDA l : l.type # "error")
    /\ mainInbox' = Tail(mainInbox)
    /\ UNCHANGED << searchVars, dbVars, domBoardState, classList, settings, isFatalError,
                    terminated, tasks, workerInbox, journal >>

\* The setTimeout callback of one call: the timeout promise resolves with
\* timeoutMessage, which settles the race.  (On a race already settled
\* the callback changes nothing; the timer then stays "armed" here.)
TimerFires ==
    \E k \in 1 .. Len(calls) :
        /\ calls[k].timer = "armed"
        /\ calls[k].outcome.state = "pending"
        /\ calls' = [calls EXCEPT ![k] =
                        [calls[k] EXCEPT !.timer = "fired",
                                         !.timerFirst = ~calls[k].heard,
                                         !.outcome = Resolved(timeoutMessage),
                                         !.settledBy = "timeout"]]
        /\ UNCHANGED << searchVars, dbVars, domBoardState, classList, settings, isFatalError,
                        terminated, tasks, listeners, workerInbox, mainInbox, journal >>

\* The worker raises an uncaught error while it handles a request: an
\* error event for the page.
WorkerError ==
    /\ workerInbox # << >>
    /\ ~terminated.ai
    /\ workerInbox' = Tail(workerInbox)
    /\ mainInbox' = Append(mainInbox, [type |-> "error", data |-> workerMessageScheme])
    /\ UNCHANGED << searchVars, dbVars, domBoardState, classList, settings, isFatalError,
                    terminated, tasks, calls, listeners, journal >>

\* --------------------------------------------- the boundary on its own

\* Calls a client makes in one session of the boundary.
MaxCalls == 2

\* Envelopes that differ from a given one in one respect the scheme
\* fixes: a key too many, a key missing, a key renamed, an array posted
\* bare (keys "0" and "1"), a leaf of another class.
Malformations(envelope) ==
    { [envelope EXCEPT !.keys = @ \cup {"extra"}],
      [envelope EXCEPT !.keys = {"request"}],
      [envelope EXCEPT !.keys = {"request", "reply"}],
      [envelope EXCEPT !.keys = {"0", "1"}],
      [envelope EXCEPT !.typeTag = "Number"],
      [envelope EXCEPT !.parameterTag = "Object"],
      [envelope EXCEPT !.errorTag = "String"] }

\* const dbWorkerRequest = structuredClone(workerMessageScheme);
\* dbWorkerRequest.request.type = "open";
OpenRequest == [workerMessageScheme EXCEPT !.type = "open"]

\* A caller awaits dispatchWorker(worker, request) with the default timeout.
ClientDispatch ==
    /\ Len(calls) < MaxCalls
    /\ \E message \in {OpenRequest} \cup Malformations(OpenRequest) :
          dispatchWorker(message, defaultTimeout)
    /\ UNCHANGED << searchVars, dbVars, domBoardState, classList, settings, isFatalError,
                    terminated, tasks, mainInbox, journal >>

\* The response of a worker that answers: structuredClone(event.data)
\* with response.error = false and the result as response.message.
SuccessResponse(request) ==
    [request EXCEPT !.error = FALSE, !.message = Message("String", << >>, "done")]

\* The response of a worker that caught an error:
\* structuredClone(workerMessageScheme) with response.error = true.
ErrorResponse(request, text) ==
    [workerMessageScheme EXCEPT !.id = request.id, !.error = TRUE,
                                !.message = Message("String", << >>, text)]

\* The worker handles the oldest request and posts a response: the
\* answer, an error response, or data that does not follow the scheme.
WorkerResponds ==
    /\ workerInbox # << >>
    /\ ~terminated.ai
    /\ \E respMsg \in {SuccessResponse(Head(workerInbox)),
                       ErrorResponse(Head(workerInbox), "Caught error in worker")}
                      \cup Malformations(SuccessResponse(Head(workerInbox))) :
          mainInbox' = Append(mainInbox, [type |-> "message", data |-> respMsg])
    /\ workerInbox' = Tail(workerInbox)
    /\ UNCHANGED << searchVars, dbVars, domBoardState, classList, settings, isFatalError,
                    terminated, tasks, calls, listeners, journal >>

\* The search is not running (the page's side is looked at on its own).
SearchIdle ==
    /\ boardState = [cells |-> createBoard.cells, playerState |-> createBoard.playerState]
    /\ winningRules = factorySettings.winningRules
    /\ stack = << >>
    /\ status = "idle"
    /\ result = Null
    /\ preCall = boardState
    /\ retval = 0
    /\ counts = [generated |-> 0, applied |-> 0, undone |-> 0, evaluated |-> 0, pruned |-> 0]
    /\ rootLog = << >>

DispatchInit ==
    /\ DbIdle
    /\ SearchIdle
    /\ AppInit
    /\ settings = factorySettings

DispatchNext ==
    \/ ClientDispatch
    \/ WorkerResponds
    \/ WorkerError
    \/ MessageEvent
    \/ ErrorEvent
    \/ TimerFires

DispatchSpec == DispatchInit /\ [][DispatchNext]_vars

\* ============================================================== the game
\* The board handlers of main.js and playUserMove / playBotMove of
\* src/modules/GameEventLoop.js, with the AI worker behind dispatchWorker.

\* User moves played on the board in one session.
MaxUserMoves == 2

\* Moves of a position the search is taken to choose from: the first
\* MaxReplies of the legal ones.
MaxReplies == 2

\* Restarts asked for in one session.
MaxRestarts == 1

\* The sequence without its k-th element.
RemoveAt(seq, k) == SubSeq(seq, 1, k - 1) \o SubSeq(seq, k + 1, Len(seq))

\* getLocalMoves(cell, player, boardState): the cells a tower of the
\* player on this cell can move to.
getLocalMoves(id, player, dom) ==
    IF CanMove(dom, player, id) THEN {TargetOf(dom, id)} ELSE {}

\* twoPlayer.find((player) => player.turn === value)
FindTurn(dom, value) == dom.playerState[FindIndex(dom.playerState, "turn", value)]

\* domBoardState.applyMoveAndTurn(src, tgt) on the live board.
ApplyLive(dom, src, tgt) ==
    LET b == applyMoveAndTurn(dom, src, tgt)
    IN  [dom EXCEPT !.cells = b.cells, !.playerState = b.playerState]

\* An activation of playUserMove or playBotMove suspended at an await, or
\* a promise rejected with nothing to handle it.
Task(fn, pc, call, src, tgt) == [fn |-> fn, pc |-> pc, call |-> call, src |-> src, tgt |-> tgt]

\* The rejected promise of an async function nobody awaits.
UnhandledRejection == Task("rejection", "unhandled", 0, NoCell, NoCell)

\* mouseover on a cell: the guards of the handler, then handleHoveredCellIn
\* (nothing while a cell is marked or without a local move).  The pointer
\* is over one cell at a time: it enters a cell when no cell is selected.
MouseOver ==
    \E c \in CellIds :
        LET currentPlayer == FindTurn(domBoardState, TRUE)
            neighbors     == getLocalMoves(c, currentPlayer, domBoardState)
        IN  /\ ~isFatalError
            /\ domBoardState.disableBoardEvents # TRUE
            /\ Len(domBoardState.cells[c].svgLayout) # 0
            /\ TopOwner(domBoardState.cells[c]) = currentPlayer.id
            /\ c \notin classList.select
            /\ classList.mark = {}
            /\ neighbors # {}
            /\ classList.select = {}
            /\ classList' = [classList EXCEPT !.select = @ \cup {c},
                                              !.hover = @ \cup neighbors]
            /\ UNCHANGED << searchVars, dbVars, domBoardState, settings, isFatalError, terminated,
                            tasks, calls, listeners, workerInbox, mainInbox, journal >>

\* mouseout of a cell: the guards of the handler, then handleHoveredCellOut.
MouseOut ==
    \E c \in CellIds :
        LET currentPlayer == FindTurn(domBoardState, TRUE)
        IN  /\ ~isFatalError
            /\ domBoardState.disableBoardEvents # TRUE
            /\ Len(domBoardState.cells[c].svgLayout) # 0
            /\ TopOwner(domBoardState.cells[c]) = currentPlayer.id
            /\ c \in classList.select
            /\ classList' = [classList EXCEPT !.select = {}, !.hover = {}]
            /\ UNCHANGED << searchVars, dbVars, domBoardState, settings, isFatalError, terminated,
                            tasks, calls, listeners, workerInbox, mainInbox, journal >>

\* click on a selected cell: prepareMoveForCell marks it and turns the
\* hovered cells into click targets.
ClickPrepare ==
    \E c \in CellIds :
        /\ ~isFatalError
        /\ domBoardState.disableBoardEvents # TRUE
        /\ c \in classList.select
        /\ classList' = [classList EXCEPT !.select = @ \ {c}, !.mark = @ \cup {c},
                                          !.hover = {}, !.click = @ \cup classList.hover]
        /\ UNCHANGED << searchVars, dbVars, domBoardState, settings, isFatalError, terminated,
                        tasks, calls, listeners, workerInbox, mainInbox, journal >>

\* click on the marked cell: discardMoveForCell takes the mark and the
\* click targets away.
ClickDiscard ==
    \E c \in CellIds :
        /\ ~isFatalError
        /\ domBoardState.disableBoardEvents # TRUE
        /\ c \notin classList.select
        /\ c \in classList.mark
        /\ classList' = [classList EXCEPT !.mark = @ \ {c}, !.click = {}]
        /\ UNCHANGED << searchVars, dbVars, domBoardState, settings, isFatalError, terminated,
                        tasks, calls, listeners, workerInbox, mainInbox, journal >>

\* document.querySelector(".mark"): the first marked cell in document order.
MarkedCell == CHOOSE c \in classList.mark : \A d \in classList.mark : c <= d

\* click on a click target: playUserMove up to its first await.  The move
\* from the marked cell is applied to the live board and the logger is
\* asked to record it; board events are not yet disabled.
ClickPlay ==
    \E clickedCell \in CellIds :
        /\ ~isFatalError
        /\ domBoardState.disableBoardEvents # TRUE
        /\ clickedCell \notin classList.select
        /\ clickedCell \notin classList.mark
        /\ clickedCell \in classList.click
        /\ classList.mark # {}
        /\ journal.userMoves < MaxUserMoves
        /\ domBoardState' = ApplyLive(domBoardState, MarkedCell, clickedCell)
        /\ tasks' = Append(tasks, Task("playUserMove", "logger", 0, MarkedCell, clickedCell))
        /\ journal' = [journal EXCEPT !.userMoves = @ + 1, !.applied = @ + 1]
        /\ UNCHANGED << searchVars, dbVars, classList, settings, isFatalError, terminated,
                        calls, listeners, workerInbox, mainInbox >>

\* The request of playBotMove: structuredClone(workerMessageScheme) with
\* type "findBestMove" and the clones of the board and the settings.
aiWorkerRequest(dom, config) ==
    [workerMessageScheme EXCEPT
        !.type = "findBestMove",
        !.parameter = << [cells |-> dom.cells, playerState |-> dom.playerState], config >>]

\* playUserMove after loggerWriter.update: board events are disabled, the
\* animations discarded; if the mover has won the board is greyed, else
\* playBotMove runs up to its await of dispatchWorker.
UserMoveLogged ==
    \E k \in 1 .. Len(tasks) :
        /\ tasks[k].fn = "playUserMove" /\ tasks[k].pc = "logger"
        /\ LET player == FindTurn(domBoardState, FALSE)
           IN  IF checkWin(domBoardState, player, settings.winningRules)
               THEN /\ domBoardState' = [domBoardState EXCEPT !.disableBoardEvents = TRUE]
                    /\ classList' = [NoClasses EXCEPT !.filterGray = TRUE]
                    /\ tasks' = RemoveAt(tasks, k)
                    /\ UNCHANGED << calls, listeners, workerInbox >>
               ELSE /\ domBoardState' = [domBoardState EXCEPT !.disableBoardEvents = TRUE,
                                                              !.waitForWebWorker = TRUE]
                    /\ classList' = [NoClasses EXCEPT !.filterGray = classList.filterGray]
                    /\ dispatchWorker(aiWorkerRequest(domBoardState, settings),
                                      settings.searchRules.timeout * 1000)
                    /\ tasks' = [tasks EXCEPT ![k] =
                                    Task("playBotMove", "dispatch", Len(calls) + 1, NoCell, NoCell)]
        /\ UNCHANGED << searchVars, dbVars, settings, isFatalError, terminated, mainInbox, journal >>

\* loggerWriter.update throws (the database answered with an error or not
\* in time): the async function ends rejected, at whichever await it was.
LoggerFails ==
    \E k \in 1 .. Len(tasks) :
        /\ tasks[k].pc \in {"logger", "logger2"}
        /\ tasks' = [tasks EXCEPT ![k] = UnhandledRejection]
        /\ UNCHANGED << searchVars, dbVars, domBoardState, classList, settings, isFatalError,
                        terminated, calls, listeners, workerInbox, mainInbox, journal >>

\* The "unhandledrejection" handler throws; the exception is reported to
\* the window "error" handler.
UnhandledRejectionEvent ==
    \E k \in 1 .. Len(tasks) :
        /\ tasks[k] = UnhandledRejection
        /\ tasks' = RemoveAt(tasks, k)
        /\ WindowErrorHandler
        /\ UNCHANGED << searchVars, dbVars, domBoardState, classList, settings,
                        calls, listeners, workerInbox, mainInbox, journal >>

\* The cell identifiers no cell has: _id absent (null after ??), and a
\* value that is not a number.
NullId == 0 - 1

NaNId == 0 - 2

\* Variant: only the source cell is looked up and tested.
BotMoveCheckSourceOnly(dom, respMsg) ==
    LET ids == respMsg.message.ids
    IN  IF respMsg.message.kind # "move" \/ Len(ids) < 2 THEN "TypeError"
        ELSE IF ids[1] = NullId \/ ids[2] = NullId \/ ids[1] = NaNId \/ ids[2] = NaNId
             THEN "Invalid move data received from worker. Expected two integers"
        ELSE IF ~(\E c \in DOMAIN dom.cells : c = ids[1])
             THEN "Invalid move data received from worker. Invalid integer identifier"
        ELSE "ok"

\* playBotMove from the response to the first animation: "ok", or the
\* error thrown.  message[0]._id ?? null and message[1]._id ?? null are
\* read (a TypeError without a two-element message), tested for null and
\* isNaN, then looked up with domBoardState.cells.find.
BotMoveCheck(dom, respMsg) ==
    LET ids == respMsg.message.ids
    IN  IF respMsg.message.kind # "move" \/ Len(ids) < 2 THEN "TypeError"
        ELSE IF ids[1] = NullId \/ ids[2] = NullId \/ ids[1] = NaNId \/ ids[2] = NaNId
             THEN "Invalid move data received from worker. Expected two integers"
        ELSE IF \/ ~(\E c \in DOMAIN dom.cells : c = ids[1])
                \/ ~(\E c \in DOMAIN dom.cells : c = ids[2])
             THEN "Invalid move data received from worker. Invalid integer identifier"
        ELSE "ok"

\* playBotMove after the await of dispatchWorker: a rejected call or an
\* error response throws; the move of the response is checked; an
\* accepted move starts the animation of its source cell.
BotResponse ==
    \E k \in 1 .. Len(tasks) :
        /\ tasks[k].fn = "playBotMove" /\ tasks[k].pc = "dispatch"
        /\ calls[tasks[k].call].outcome.state # "pending"
        /\ LET outcome == calls[tasks[k].call].outcome
               respMsg == outcome.value
               thrown  == \/ outcome.state = "rejected"
                          \/ respMsg.error = TRUE
                          \/ BotMoveCheck(domBoardState, respMsg) # "ok"
           IN  IF thrown
               THEN /\ tasks' = [tasks EXCEPT ![k] = UnhandledRejection]
                    /\ journal' = [journal EXCEPT !.aiFailed = TRUE,
                                                  !.refused = @ \cup {tasks[k].call}]
                    /\ UNCHANGED classList
               ELSE /\ tasks' = [tasks EXCEPT ![k] =
                                    Task("playBotMove", "css1", tasks[k].call,
                                         respMsg.message.ids[1], respMsg.message.ids[2])]
                    /\ journal' = [journal EXCEPT !.accepted = @ \cup {tasks[k].call}]
                    /\ classList' = [classList EXCEPT !.select = @ \cup {respMsg.message.ids[1]}]
        /\ UNCHANGED << searchVars, dbVars, domBoardState, settings, isFatalError, terminated,
                        calls, listeners, workerInbox, mainInbox >>

\* The first cssTransitionEnded has resolved: the second one starts on
\* the target cell.
BotSourceAnimated ==
    \E k \in 1 .. Len(tasks) :
        /\ tasks[k].pc = "css1"
        /\ tasks' = [tasks EXCEPT ![k].pc = "css2"]
        /\ classList' = [classList EXCEPT !.hover = @ \cup {tasks[k].tgt}]
        /\ UNCHANGED << searchVars, dbVars, domBoardState, settings, isFatalError, terminated,
                        calls, listeners, workerInbox, mainInbox, journal >>

\* A cssTransitionEnded rejects (a transition of an unexpected property).
BotAnimationFails ==
    \E k \in 1 .. Len(tasks) :
        /\ tasks[k].pc \in {"css1", "css2"}
        /\ tasks' = [tasks EXCEPT ![k] = UnhandledRejection]
        /\ UNCHANGED << searchVars, dbVars, domBoardState, classList, settings, isFatalError,
                        terminated, calls, listeners, workerInbox, mainInbox, journal >>

\* The second cssTransitionEnded has resolved: the bot's move is applied
\* to the live board and the logger asked to record it.
BotTargetAnimated ==
    \E k \in 1 .. Len(tasks) :
        /\ tasks[k].pc = "css2"
        /\ domBoardState' = ApplyLive(domBoardState, tasks[k].src, tasks[k].tgt)
        /\ tasks' = [tasks EXCEPT ![k].pc = "logger2"]
        /\ journal' = [journal EXCEPT !.applied = @ + 1,
                                      !.botApplied = @ \cup {tasks[k].call}]
        /\ UNCHANGED << searchVars, dbVars, classList, settings, isFatalError, terminated,
                        calls, listeners, workerInbox, mainInbox >>

\* Variant: waitForWebWorker is left set after the bot's move.
BotMoveLoggedKeepsWaiting ==
    \E k \in 1 .. Len(tasks) :
        /\ tasks[k].pc = "logger2"
        /\ LET player == FindTurn(domBoardState, FALSE)
               won    == checkWin(domBoardState, player, settings.winningRules)
           IN  /\ domBoardState' = [domBoardState EXCEPT
                                       !.disableBoardEvents = IF won THEN @ ELSE FALSE]
               /\ classList' = [classList EXCEPT
                                   !.select = @ \ {tasks[k].src},
                                   !.hover = @ \ {tasks[k].tgt},
                                   !.filterGray = IF won THEN TRUE ELSE @]
        /\ tasks' = RemoveAt(tasks, k)
        /\ UNCHANGED << searchVars, dbVars, settings, isFatalError, terminated,
                        calls, listeners, workerInbox, mainInbox, journal >>

\* playBotMove after loggerWriter.update: the animation classes are
\* removed, waitForWebWorker is cleared; if the bot has won the board is
\* greyed, else board events are enabled.
BotMoveLogged ==
    \E k \in 1 .. Len(tasks) :
        /\ tasks[k].pc = "logger2"
        /\ LET player == FindTurn(domBoardState, FALSE)
               won    == checkWin(domBoardState, player, settings.winningRules)
           IN  /\ domBoardState' = [domBoardState EXCEPT
                                       !.waitForWebWorker = FALSE,
                                       !.disableBoardEvents = IF won THEN @ ELSE FALSE]
               /\ classList' = [classList EXCEPT
                                   !.select = @ \ {tasks[k].src},
                                   !.hover = @ \ {tasks[k].tgt},
                                   !.filterGray = IF won THEN TRUE ELSE @]
        /\ tasks' = RemoveAt(tasks, k)
        /\ UNCHANGED << searchVars, dbVars, settings, isFatalError, terminated,
                        calls, listeners, workerInbox, mainInbox, journal >>

\* Variant: the pieces are placed without the cells being emptied first.
resetGameOnTop(dom) ==
    [cells |-> PlacePieces(dom.cells),
     playerState |-> [k \in 1 .. 2 |->
                        [dom.playerState[k] EXCEPT
                            !.turn = (dom.playerState[k].id # PLAYER_ID.BOT),
                            !.lastHorizontal = FALSE,
                            !.safetyTower = 0,
                            !.vault = [self |-> 0, opponent |-> 0],
                            !.winner = FALSE]],
     disableBoardEvents |-> FALSE,
     waitForWebWorker |-> FALSE]

\* Variant: resetGame leaves the bot's turn flag as it is.
resetGameKeepsBotTurn(dom) ==
    [cells |-> PlacePieces([c \in CellIds |-> EmptyCell]),
     playerState |-> [k \in 1 .. 2 |->
                        [dom.playerState[k] EXCEPT
                            !.turn = IF dom.playerState[k].id = PLAYER_ID.BOT THEN @ ELSE TRUE,
                            !.lastHorizontal = FALSE,
                            !.safetyTower = 0,
                            !.vault = [self |-> 0, opponent |-> 0],
                            !.winner = FALSE]],
     disableBoardEvents |-> FALSE,
     waitForWebWorker |-> FALSE]

\* resetGame(domBoardState, loggerWriter): every cell emptied (svgLayout
\* [], direction 0, dot false), both players reset with the turn given to
\* the user, the pieces placed, board events enabled, waitForWebWorker
\* cleared.
resetGame(dom) ==
    [cells |-> PlacePieces([c \in CellIds |-> EmptyCell]),
     playerState |-> [k \in 1 .. 2 |->
                        [dom.playerState[k] EXCEPT
                            !.turn = (dom.playerState[k].id # PLAYER_ID.BOT),
                            !.lastHorizontal = FALSE,
                            !.safetyTower = 0,
                            !.vault = [self |-> 0, opponent |-> 0],
                            !.winner = FALSE]],
     disableBoardEvents |-> FALSE,
     waitForWebWorker |-> FALSE]

\* click on the restart item of the navbar (not while waiting for the
\* worker): resetGame; the board's filterGray is removed.
ClickRestart ==
    /\ ~isFatalError
    /\ domBoardState.waitForWebWorker # TRUE
    /\ journal.restarts < MaxRestarts
    /\ domBoardState' = resetGame(domBoardState)
    /\ classList' = [classList EXCEPT !.filterGray = FALSE]
    /\ journal' = [journal EXCEPT !.restarts = @ + 1]
    /\ UNCHANGED << searchVars, dbVars, settings, isFatalError, terminated, tasks,
                    calls, listeners, workerInbox, mainInbox >>

\* The moves findBestMove can return for a request: one of the moves of
\* the player to move (which of them is the search's business), by the
\* identifiers of its two cells.
BestMoveReplies(request) ==
    LET board  == request.parameter[1]
        player == board.playerState[FindIndex(board.playerState, "turn", TRUE)]
        moves  == getAllPossibleMoves(board, player)
    IN  IF request.type # "findBestMove" THEN {ErrorResponse(request, "Invalid request  type for AiWorker")}
        ELSE IF player.isMaximizing = FALSE \/ Len(moves) = 0
             THEN {ErrorResponse(request, "Caught error in ai worker")}
        ELSE { [request EXCEPT !.error = FALSE,
                               !.message = Message("move", moves[k], "")] :
                 k \in 1 .. Min(Len(moves), MaxReplies) }

\* The message handler of AiWorker.js: findBestMove on the rebuilt board;
\* the request is posted back with the move as response.message, or an
\* error response when findBestMove threw.
AiWorkerMessage ==
    /\ workerInbox # << >>
    /\ ~terminated.ai
    /\ \E respMsg \in BestMoveReplies(Head(workerInbox)) :
          mainInbox' = Append(mainInbox, [type |-> "message", data |-> respMsg])
    /\ workerInbox' = Tail(workerInbox)
    /\ UNCHANGED << searchVars, dbVars, domBoardState, classList, settings, isFatalError,
                    terminated, tasks, calls, listeners, journal >>

\* Responses whose move playBotMove cannot resolve: no message, an _id
\* absent, an _id that is not a number, an _id no cell has.
UnresolvableMoves(request) ==
    { [request EXCEPT !.error = FALSE, !.message = m] :
        m \in { NullMessage,
                Message("move", << NullId, 0 >>, ""),
                Message("move", << 0, NaNId >>, ""),
                Message("move", << 0, NumCells >>, "") } }

\* A worker that does not keep to the protocol answers the oldest
\* request with a move that cannot be resolved.
ForeignWorkerMessage ==
    /\ workerInbox # << >>
    /\ ~terminated.ai
    /\ \E respMsg \in UnresolvableMoves(Head(workerInbox)) :
          mainInbox' = Append(mainInbox, [type |-> "message", data |-> respMsg])
    /\ workerInbox' = Tail(workerInbox)
    /\ UNCHANGED << searchVars, dbVars, domBoardState, classList, settings, isFatalError,
                    terminated, tasks, calls, listeners, journal >>

GameInit ==
    /\ DbIdle
    /\ SearchIdle
    /\ AppInit
    /\ \E rules \in WinningRulesSet :
          settings = [factorySettings EXCEPT !.winningRules = rules]

GameNext ==
    \/ MouseOver
    \/ MouseOut
    \/ ClickPrepare
    \/ ClickDiscard
    \/ ClickPlay
    \/ ClickRestart
    \/ UserMoveLogged
    \/ LoggerFails
    \/ UnhandledRejectionEvent
    \/ BotResponse
    \/ BotSourceAnimated
    \/ BotAnimationFails
    \/ BotTargetAnimated
    \/ BotMoveLogged
    \/ AiWorkerMessage
    \/ WorkerError
    \/ MessageEvent
    \/ ErrorEvent
    \/ TimerFires

\* A session of the game with the worker of AiWorker.js.
GameSpec == GameInit /\ [][GameNext]_vars

\* The same session with the scheduling of the bot's hand-off: each
\* cssTransitionEnded races the transition events against a timer that
\* always fires, and loggerWriter.update awaits a dispatchWorker that
\* settles by its own timer, so none of the three awaits of playBotMove
\* after the response stays pending for ever; the continuation then runs.
FairGameSpec ==
    /\ GameInit /\ [][GameNext]_vars
    /\ WF_vars(BotSourceAnimated)
    /\ WF_vars(BotTargetAnimated)
    /\ WF_vars(BotMoveLogged)

ForeignNext ==
    \/ MouseOver
    \/ MouseOut
    \/ ClickPrepare
    \/ ClickDiscard
    \/ ClickPlay
    \/ UserMoveLogged
    \/ LoggerFails
    \/ UnhandledRejectionEvent
    \/ BotResponse
    \/ BotSourceAnimated
    \/ BotAnimationFails
    \/ BotTargetAnimated
    \/ BotMoveLogged
    \/ AiWorkerMessage
    \/ ForeignWorkerMessage
    \/ WorkerError
    \/ MessageEvent
    \/ ErrorEvent
    \/ TimerFires

\* A game without restart, with a worker that may answer off the protocol.
ForeignSpec == GameInit /\ [][ForeignNext]_vars

\* ------------------------------------------------ the second round
\* The game one round in, from the user's click on the target of a second
\* move on: the clicks that can follow while playUserMove awaits the
\* logger, and the bot's replies.

\* The live board after the first round of a game: the user's first
\* legal move and the bot's first legal move in reply, board events
\* enabled again.
OpeningRound ==
    LET start    == [cells |-> createBoard.cells, playerState |-> createBoard.playerState]
        userMove == getAllPossibleMoves(start, start.playerState[
                        FindIndex(start.playerState, "turn", TRUE)])[1]
        afterUser == applyMoveAndTurn(start, userMove[1], userMove[2])
        botMove  == getAllPossibleMoves(afterUser, afterUser.playerState[
                        FindIndex(afterUser.playerState, "turn", TRUE)])[1]
        afterBot == applyMoveAndTurn(afterUser, botMove[1], botMove[2])
    IN  [cells |-> afterBot.cells, playerState |-> afterBot.playerState,
         disableBoardEvents |-> FALSE, waitForWebWorker |-> FALSE]

\* After the first round the user has marked a tower and clicked its
\* target: playUserMove has applied the move and awaits the logger; the
\* mark and the click target are still on the board.  The first round's
\* call is settled and gone; the history starts here.
RaceInit ==
    /\ DbIdle
    /\ SearchIdle
    /\ \E rules \in WinningRulesSet :
          settings = [factorySettings EXCEPT !.winningRules = rules]
    /\ \E c \in CellIds :
          /\ getLocalMoves(c, FindTurn(OpeningRound, TRUE), OpeningRound) # {}
          /\ \E clickedCell \in getLocalMoves(c, FindTurn(OpeningRound, TRUE), OpeningRound) :
                /\ domBoardState = ApplyLive(OpeningRound, c, clickedCell)
                /\ classList = [NoClasses EXCEPT !.mark = {c}, !.click = {clickedCell}]
                /\ tasks = << Task("playUserMove", "logger", 0, c, clickedCell) >>
    /\ isFatalError = FALSE
    /\ terminated = [ai |-> FALSE, db |-> FALSE]
    /\ calls = << >>
    /\ listeners = << >>
    /\ workerInbox = << >>
    /\ mainInbox = << >>
    /\ journal = NewJournal

RaceNext ==
    \/ ClickPlay
    \/ UserMoveLogged
    \/ AiWorkerMessage
    \/ MessageEvent
    \/ BotResponse
    \/ BotSourceAnimated
    \/ BotTargetAnimated
    \/ BotMoveLogged

\* The second round of a game, with nothing failing.
RaceSpec == RaceInit /\ [][RaceNext]_vars

\* ============================================================ the worker
\* The message handler of src/modules/AiWorker.js around findBestMove:
\* one request in, the search on the rebuilt board, one response out.

\* Settings the page can hold when it dispatches a request: the factory
\* values, sliders moved (search depth and the three total weights), and
\* other winning rules.
SettingsSnapshots ==
    { factorySettings,
      [factorySettings EXCEPT !.searchRules.depth = 2,
                              !.materialAdvantageConquered.totalWeight = 30,
                              !.safetyZoneProximity.totalWeight = 5,
                              !.materialAdvantageAccounted.totalWeight = 10],
      [factorySettings EXCEPT !.winningRules = [safetyZone |-> 2, materialOpponent |-> 2]] }

\* BoardState.createFromStructuredClone(clone): the board rebuilt from
\* the clone the page posted; it throws on anything that is not one.
createFromStructuredClone(parameter) ==
    IF Len(parameter) >= 1
    THEN [threw |-> FALSE, boardState |-> parameter[1]]
    ELSE [threw |-> TRUE, boardState |-> Null]

\* Requests a worker can be handed: the request of playBotMove for a
\* position and a settings snapshot, a request of another type, and a
\* findBestMove request without its parameters.
WorkerRequests ==
    { [aiWorkerRequest(BoardOf(config, turnId), snapshot) EXCEPT !.id = 1] :
        config \in [0 .. (NumCols - 1) -> 1 .. Len(ColumnConfigs)],
        turnId \in {PLAYER_ID.BOT, PLAYER_ID.USER},
        snapshot \in SettingsSnapshots }
    \cup { [OpenRequest EXCEPT !.id = 1],
           [workerMessageScheme EXCEPT !.id = 1, !.type = "findBestMove"] }

\* Variant: the catch block only logs the error.
PostErrorResponseLogOnly(text) ==
    /\ mainInbox' = mainInbox
    /\ workerInbox' = Tail(workerInbox)

\* The catch block: structuredClone(workerMessageScheme) with
\* response.error = true is posted, and the handler is over.
PostErrorResponse(text) ==
    /\ mainInbox' = Append(mainInbox, [type |-> "message",
                                       data |-> ErrorResponse(Head(workerInbox), text)])
    /\ workerInbox' = Tail(workerInbox)

\* The handler is called with a findBestMove request: the board is
\* rebuilt, the settings are read from parameter[1], and findBestMove is
\* called (on the board; it has no parameter for the settings).
AiWorkerReceive ==
    /\ status = "listening"
    /\ workerInbox # << >>
    /\ Head(workerInbox).type = "findBestMove"
    /\ LET rebuilt == createFromStructuredClone(Head(workerInbox).parameter)
       IN  /\ ~rebuilt.threw
           /\ boardState' = rebuilt.boardState
           /\ preCall' = rebuilt.boardState
    /\ status' = "idle"
    /\ UNCHANGED << winningRules, stack, result, retval, counts, rootLog, appVars, dbVars >>

\* The handler is called with a request of another type: it throws
\* "Invalid request  type for AiWorker" into its own catch.
AiWorkerInvalidType ==
    /\ status = "listening"
    /\ workerInbox # << >>
    /\ Head(workerInbox).type # "findBestMove"
    /\ PostErrorResponse("Caught error in ai worker: Error: Invalid request  type for AiWorker")
    /\ status' = "thrown"
    /\ UNCHANGED << boardState, winningRules, stack, result, preCall, retval, counts, rootLog,
                    dbVars, domBoardState, classList, settings, isFatalError, terminated, tasks,
                    calls, listeners, journal >>

\* The board cannot be rebuilt from parameter[0]: the error is caught.
AiWorkerRebuildThrows ==
    /\ status = "listening"
    /\ workerInbox # << >>
    /\ Head(workerInbox).type = "findBestMove"
    /\ createFromStructuredClone(Head(workerInbox).parameter).threw
    /\ PostErrorResponse("Caught error in ai worker: TypeError")
    /\ status' = "thrown"
    /\ UNCHANGED << boardState, winningRules, stack, result, preCall, retval, counts, rootLog,
                    dbVars, domBoardState, classList, settings, isFatalError, terminated, tasks,
                    calls, listeners, journal >>

\* findBestMove threw: the error is caught.
AiWorkerSearchThrows ==
    /\ status = "thrown"
    /\ workerInbox # << >>
    /\ PostErrorResponse("Caught error in ai worker: Error")
    /\ UNCHANGED << searchVars, dbVars, domBoardState, classList, settings, isFatalError,
                    terminated, tasks, calls, listeners, journal >>

\* findBestMove returned: event.data.response.error = false;
\* event.data.response.message = move; self.postMessage(event.data).
AiWorkerPostMove ==
    /\ status = "returned"
    /\ workerInbox # << >>
    /\ mainInbox' = Append(mainInbox,
                           [type |-> "message",
                            data |-> [Head(workerInbox) EXCEPT
                                         !.error = FALSE,
                                         !.message = Message("move", result, "")]])
    /\ workerInbox' = Tail(workerInbox)
    /\ UNCHANGED << searchVars, dbVars, domBoardState, classList, settings, isFatalError,
                    terminated, tasks, calls, listeners, journal >>

\* A worker that has been posted one request it has not handled yet; the
\* page holds the settings the request carries a clone of.  The rules
\* checkWin tests against inside the search are not taken from it.
WorkerInit ==
    /\ DbIdle
    /\ \E request \in WorkerRequests :
          /\ workerInbox = << request >>
          /\ settings = IF Len(request.parameter) >= 2 THEN request.parameter[2]
                        ELSE factorySettings
    /\ boardState = [cells |-> createBoard.cells, playerState |-> createBoard.playerState]
    /\ winningRules \in WinningRulesSet
    /\ stack = << >>
    /\ status = "listening"
    /\ result = Null
    /\ preCall = boardState
    /\ retval = 0
    /\ counts = [generated |-> 0, applied |-> 0, undone |-> 0, evaluated |-> 0, pruned |-> 0]
    /\ rootLog = << >>
    /\ domBoardState = createBoard
    /\ classList = NoClasses
    /\ isFatalError = FALSE
    /\ terminated = [ai |-> FALSE, db |-> FALSE]
    /\ tasks = << >>
    /\ calls = << >>
    /\ listeners = << >>
    /\ mainInbox = << >>
    /\ journal = NewJournal

WorkerNext ==
    \/ AiWorkerReceive
    \/ AiWorkerInvalidType
    \/ AiWorkerRebuildThrows
    \/ AiWorkerSearchThrows
    \/ AiWorkerPostMove
    \/ FindBestMoveWrongTurn
    \/ FindBestMoveNoMoves
    \/ FindBestMoveStart
    \/ RootApply
    \/ RootReturn
    \/ MinimaxTerminal
    \/ MinimaxExpand
    \/ MinimaxApply
    \/ MinimaxReturn

\* The worker handling one request.
WorkerSpec == WorkerInit /\ [][WorkerNext]_vars

\* ------------------------------------------------------ the replay log

\* How many games the store may hold when the page loads (the store is
\* shared by every page of the origin), and how many moves a session
\* logs.
MaxStoredGames == 11

MaxLogged == 3

\* The number of games update keeps when a new game begins.
KeptGames == 9

\* The elements of a set of numbers in ascending order.
RECURSIVE Ascending(_)
Ascending(S) ==
    IF S = {} THEN << >>
    ELSE LET least == CHOOSE x \in S : \A y \in S : x <= y
         IN  << least >> \o Ascending(S \ {least})

\* DbWorker getAllIndexKeys: the distinct keys of the gameId index from
\* 0 upwards, in index order.
getAllIndexKeys(objStore) ==
    Ascending({record.gameId : record \in {r \in objStore : r.gameId >= 0}})

\* Variant: only the first primary key of the game is returned.
getKeysFromIndexOnlyFirst(objStore, indexKey) ==
    SubSeq(Ascending({record.id : record \in {r \in objStore : r.gameId = indexKey}}), 1, 1)

\* DbWorker getKeysFromIndexOnly: the primary keys of the records whose
\* index key is indexKey.
getKeysFromIndexOnly(objStore, indexKey) ==
    Ascending({record.id : record \in {r \in objStore : r.gameId = indexKey}})

\* DbWorker storeXact on the object store, key path "id": put replaces
\* the record of the same key, delete removes it.
storeXact(objStore, method, parm) ==
    CASE method = "put" -> {r \in objStore : r.id # parm.id} \cup {parm}
      [] method = "delete" -> {r \in objStore : r.id # parm}
      [] OTHER -> objStore

\* What a caller hands to LoggerReader.dispose: a game id (kind
\* "number"), a reader object, or undefined.
ReaderArg(gameId) == [kind |-> "reader", gameId |-> gameId]

Undefined == [kind |-> "undefined", gameId |-> 0]

\* LoggerReader.instances.get(gameId) as update passes it on.
instancesGet(readers, gameId) ==
    IF gameId \in DOMAIN readers THEN ReaderArg(gameId) ELSE Undefined

\* LoggerReader.dispose(gameId): nothing unless the registry has the
\* argument as a key (its keys are game ids, so never for a reader
\* object or undefined); for a key it has, the generator is ended and
\* the scroll item removed, then "reader = null" assigns to a const and
\* throws before instances.delete is reached.
dispose(readers, arg) ==
    IF arg.kind = "number" /\ arg.gameId \in DOMAIN readers
    THEN [instances |-> readers, threw |-> TRUE]
    ELSE [instances |-> readers, threw |-> FALSE]

\* new LoggerReader(gameId): a reader without keys, registered under its
\* game id (in place of a reader already there).
NewReader(readers, gameId) ==
    [g \in DOMAIN readers \cup {gameId} |->
        IF g = gameId THEN [primaryKeys |-> << >>] ELSE readers[g]]

\* reader.addPrimaryKey(key).
addPrimaryKey(readers, gameId, key) ==
    [readers EXCEPT ![gameId].primaryKeys = Append(@, key)]

\* The Move handed to update, told apart by the game it was applied in
\* and its number among the moves applied in the session; and null.
LastMove(gameId, applied) == [gameId |-> gameId, applied |-> applied]

NullLastMove == LastMove(0, 0)

\* A record of the store.
Record(id, gameId, move, lastMove) ==
    [id |-> id, gameId |-> gameId, move |-> move, lastMove |-> lastMove]

\* An activation of update suspended at an await: where, and its locals
\* (first: it took the branch of a new game).
Update(pc, allIndexKeys, i, allPrimaryKeys, key, first, lastMove) ==
    [pc |-> pc, allIndexKeys |-> allIndexKeys, i |-> i,
     allPrimaryKeys |-> allPrimaryKeys, key |-> key, first |-> first,
     lastMove |-> lastMove]

\* The games update evicts for the index keys it read: the oldest ones
\* beyond the nine it keeps.
Evicted(allIndexKeys) ==
    {allIndexKeys[i] : i \in 1 .. Max(0, Len(allIndexKeys) - KeptGames)}

\* update from "this._move++" to the await of the put: the record of the
\* move is built under a key read from the clock and sent to the store.
WriteMove(k, ups, first) ==
    /\ now' = now + 1
    /\ loggerWriter' = [loggerWriter EXCEPT !.move = @ + 1]
    /\ replayLog' = storeXact(replayLog, "put",
                        Record(now + 1, loggerWriter.gameId, loggerWriter.move + 1,
                               ups[k].lastMove))
    /\ updates' = [ups EXCEPT ![k] = Update("put", ups[k].allIndexKeys, 0, << >>,
                                            now + 1, first, ups[k].lastMove)]

\* update from the end of the evictions to the await in #firstUpdate:
\* the reader of the game is created, the record of move 0 is built
\* under a key read from the clock, with lastMove null, and sent.
WriteFirst(k) ==
    /\ instances' = NewReader(instances, loggerWriter.gameId)
    /\ now' = now + 1
    /\ replayLog' = storeXact(replayLog, "put",
                        Record(now + 1, loggerWriter.gameId, loggerWriter.move, NullLastMove))
    /\ updates' = [updates EXCEPT ![k] = Update("firstPut", updates[k].allIndexKeys, 0,
                                                << >>, now + 1, TRUE, updates[k].lastMove)]
    /\ UNCHANGED loggerWriter

\* update at the head of the eviction loop for index i: the reader of
\* the game is looked up and handed to dispose, then the keys of the
\* game are asked for; past the last evicted game the first record is
\* written.
EvictFrom(k, i) ==
    LET task == updates[k]
    IN  IF i <= Len(task.allIndexKeys) - KeptGames
        THEN LET gone == dispose(instances, instancesGet(instances, task.allIndexKeys[i]))
             IN  /\ instances' = gone.instances
                 /\ updates' =
                       IF gone.threw THEN RemoveAt(updates, k)
                       ELSE [updates EXCEPT ![k] =
                                Update("keysFromIndex", task.allIndexKeys, i,
                                       getKeysFromIndexOnly(replayLog, task.allIndexKeys[i]),
                                       0, TRUE, task.lastMove)]
                 /\ UNCHANGED << replayLog, loggerWriter, now >>
        ELSE WriteFirst(k)

\* The game loop calls loggerWriter.update(lastMove) after applying a
\* move, and awaits it before it goes on: for the first move of a game
\* the index keys are asked for, otherwise the move is written.  (The
\* database worker serves one update at a time here.)
UpdateCall ==
    /\ updates = << >>
    /\ journal.applied < MaxLogged
    /\ journal' = [journal EXCEPT !.applied = @ + 1]
    /\ LET lastMove == LastMove(loggerWriter.gameId, journal.applied + 1)
       IN  IF loggerWriter.move = 0
           THEN /\ updates' = Append(updates,
                                 Update("allIndexKeys", getAllIndexKeys(replayLog), 0, << >>,
                                        0, TRUE, lastMove))
                /\ UNCHANGED << replayLog, instances, loggerWriter, now >>
           ELSE /\ WriteMove(Len(updates) + 1,
                             Append(updates, Update("call", << >>, 0, << >>, 0, FALSE, lastMove)),
                             FALSE)
                /\ UNCHANGED instances
    /\ UNCHANGED << searchVars, domBoardState, classList, settings, isFatalError,
                    terminated, tasks, calls, listeners, workerInbox, mainInbox,
                    cursor, restore >>

\* update after cacheAllIndexKeys: with more than nine games stored the
\* eviction loop is entered, otherwise the first record is written.
UpdateIndexKeys ==
    \E k \in 1 .. Len(updates) :
        /\ updates[k].pc = "allIndexKeys"
        /\ IF Len(updates[k].allIndexKeys) > KeptGames
           THEN EvictFrom(k, 1)
           ELSE WriteFirst(k)
        /\ UNCHANGED << searchVars, appVars, cursor, restore >>

\* update after cacheKeysFromIndex or after a delete: the next key of
\* the evicted game is deleted; after its last key the loop goes on to
\* the next game.
UpdateDelete ==
    \E k \in 1 .. Len(updates) :
        /\ updates[k].pc \in {"keysFromIndex", "delete"}
        /\ LET task == updates[k]
           IN  IF task.allPrimaryKeys # << >>
               THEN /\ replayLog' = storeXact(replayLog, "delete", Head(task.allPrimaryKeys))
                    /\ updates' = [updates EXCEPT ![k].pc = "delete",
                                                  ![k].allPrimaryKeys = Tail(@)]
                    /\ UNCHANGED << instances, loggerWriter, now >>
               ELSE EvictFrom(k, task.i + 1)
        /\ UNCHANGED << searchVars, appVars, cursor, restore >>

\* #firstUpdate after its put: the key is added to the reader registered
\* under the writer's game id (a TypeError without one); back in update
\* the move is written.
UpdateFirstPut ==
    \E k \in 1 .. Len(updates) :
        /\ updates[k].pc = "firstPut"
        /\ IF loggerWriter.gameId \in DOMAIN instances
           THEN /\ instances' = addPrimaryKey(instances, loggerWriter.gameId, updates[k].key)
                /\ WriteMove(k, updates, TRUE)
           ELSE /\ updates' = RemoveAt(updates, k)
                /\ UNCHANGED << replayLog, instances, loggerWriter, now >>
        /\ UNCHANGED << searchVars, appVars, cursor, restore >>

\* update after the put of a move: the key is added to the reader
\* registered under the writer's game id (a TypeError without one) and
\* update returns.
UpdatePut ==
    \E k \in 1 .. Len(updates) :
        /\ updates[k].pc = "put"
        /\ instances' = IF loggerWriter.gameId \in DOMAIN instances
                        THEN addPrimaryKey(instances, loggerWriter.gameId, updates[k].key)
                        ELSE instances
        /\ updates' = RemoveAt(updates, k)
        /\ UNCHANGED << replayLog, loggerWriter, now >>
        /\ UNCHANGED << searchVars, appVars, cursor, restore >>

\* A dispatchWorker of update rejects or answers with an error (the
\* store had done its work or not): update throws.
UpdateRejects ==
    \E k \in 1 .. Len(updates) :
        /\ updates' = RemoveAt(updates, k)
        /\ UNCHANGED << replayLog, instances, loggerWriter, now >>
        /\ UNCHANGED << searchVars, appVars, cursor, restore >>

\* resetGame, its last two lines: the writer gets a new game id from the
\* clock and starts again at move 0.
LoggerReset ==
    /\ journal.restarts < MaxRestarts
    /\ journal' = [journal EXCEPT !.restarts = @ + 1]
    /\ now' = now + 1
    /\ loggerWriter' = [gameId |-> now + 1, move |-> 0]
    /\ UNCHANGED << replayLog, instances, updates >>
    /\ UNCHANGED << searchVars, domBoardState, classList, settings, isFatalError,
                    terminated, tasks, calls, listeners, workerInbox, mainInbox,
                    cursor, restore >>

\* The store of a page load with n games of perGame records each (each
\* game id and each key a reading of the clock), and the readers the
\* load handler builds for them.
StoredLog(n, perGame) ==
    {Record(3 * (g - 1) + 1 + m + 1, 3 * (g - 1) + 1, m,
            IF m = 0 THEN NullLastMove ELSE LastMove(3 * (g - 1) + 1, m)) :
        g \in 1 .. n, m \in 0 .. (perGame - 1)}

LoggerInit ==
    /\ SearchIdle
    /\ AppInit
    /\ settings = factorySettings
    /\ \E n \in 0 .. MaxStoredGames, perGame \in 1 .. 2 :
          /\ replayLog = StoredLog(n, perGame)
          /\ instances = [g \in {record.gameId : record \in StoredLog(n, perGame)} |->
                            [primaryKeys |-> getKeysFromIndexOnly(StoredLog(n, perGame), g)]]
          /\ now = 3 * n + 1
          /\ loggerWriter = [gameId |-> 3 * n + 1, move |-> 0]
    /\ updates = << >>
    /\ cursor = << >>
    /\ restore = << >>

LoggerNext ==
    \/ UpdateCall
    \/ UpdateIndexKeys
    \/ UpdateDelete
    \/ UpdateFirstPut
    \/ UpdatePut
    \/ UpdateRejects
    \/ LoggerReset

\* The replay log of a session: the game loop logging its moves, the
\* store answering, the game being reset.
LoggerSpec == LoggerInit /\ [][LoggerNext]_vars

\* ----------------------------------------------------------- the replay

\* How many records the replayed game has at first, how many
\* fetchRecord calls a replay makes, how far one call steps.
MaxKeys == 3

MaxFetches == 3

MaxSteps == 2

\* The arguments of fetchRecord: Infinity, -Infinity, an integer.
StepsInfinity == [inf |-> 1, by |-> 0]

StepsMinusInfinity == [inf |-> 0 - 1, by |-> 0]

Steps(k) == [inf |-> 0, by |-> k]

AdvanceSteps == {StepsInfinity, StepsMinusInfinity} \cup {Steps(k) : k \in (0 - MaxSteps) .. MaxSteps}

\* The async generator of a reader: not started ("suspendedStart"),
\* waiting at "const advanceSteps = yield" with its cursor index
\* ("suspendedYield"), or returned ("completed").
Generator(state, cursorIndex) == [state |-> state, cursorIndex |-> cursorIndex]

\* Variant: an integer argument is taken as the index to go to.
generatorFactoryAbsolute(generator, primaryKeys, advanceSteps) ==
    IF generator.state = "completed" \/ primaryKeys = << >>
    THEN Generator("completed", generator.cursorIndex)
    ELSE IF generator.state = "suspendedStart"
    THEN Generator("suspendedYield", Len(primaryKeys) - 1)
    ELSE LET moved == CASE advanceSteps = StepsInfinity -> Len(primaryKeys) - 1
                        [] advanceSteps = StepsMinusInfinity -> 0
                        [] OTHER -> advanceSteps.by
         IN  Generator("suspendedYield",
                       IF moved < 0 THEN 0
                       ELSE IF moved > Len(primaryKeys) - 1 THEN Len(primaryKeys) - 1
                       ELSE moved)

\* generatorFactory driven by the two next() calls of one fetchRecord:
\* the generator after them.  Started by the first next(advanceSteps),
\* whose argument a generator ignores, it returns without keys and else
\* puts the cursor on the last key; resumed at "const advanceSteps =
\* yield" it moves the cursor as the switch says and clamps it to
\* [0, length - 1].  The second next() takes it back to the yield.
generatorFactory(generator, primaryKeys, advanceSteps) ==
    IF generator.state = "completed" \/ primaryKeys = << >>
    THEN Generator("completed", generator.cursorIndex)
    ELSE IF generator.state = "suspendedStart"
    THEN Generator("suspendedYield", Len(primaryKeys) - 1)
    ELSE LET moved == CASE advanceSteps = StepsInfinity -> Len(primaryKeys) - 1
                        [] advanceSteps = StepsMinusInfinity -> 0
                        [] OTHER -> generator.cursorIndex + advanceSteps.by
         IN  Generator("suspendedYield",
                       IF moved < 0 THEN 0
                       ELSE IF moved > Len(primaryKeys) - 1 THEN Len(primaryKeys) - 1
                       ELSE moved)

\* The record storeXact "get" finds under a key, or none.
NoRecord == Record(0, 0, 0, NullLastMove)

storeGet(objStore, key) ==
    IF \E record \in objStore : record.id = key
    THEN CHOOSE record \in objStore : record.id = key
    ELSE NoRecord

\* The reader being replayed: its game, its generator, the arguments of
\* the fetchRecord calls made so far, the record the last call returned
\* and whether it threw.
Replay(gameId, generator, fetched, record, threw) ==
    [gameId |-> gameId, generator |-> generator, fetched |-> fetched,
     record |-> record, threw |-> threw]

\* reader.fetchRecord(advanceSteps): the record under the key at the
\* cursor is fetched and returned; a generator that has returned makes
\* it throw.
FetchRecord ==
    /\ Len(cursor.fetched) < MaxFetches
    /\ \E advanceSteps \in AdvanceSteps :
          LET primaryKeys == instances[cursor.gameId].primaryKeys
              generator   == generatorFactory(cursor.generator, primaryKeys, advanceSteps)
          IN  cursor' =
                 IF generator.state = "completed"
                 THEN Replay(cursor.gameId, generator, Append(cursor.fetched, advanceSteps),
                             NoRecord, TRUE)
                 ELSE Replay(cursor.gameId, generator, Append(cursor.fetched, advanceSteps),
                             storeGet(replayLog, primaryKeys[generator.cursorIndex + 1]),
                             FALSE)
    /\ UNCHANGED << searchVars, appVars, replayLog, instances, loggerWriter, now,
                    updates, restore >>

\* The dispatchWorker of the generator rejects or answers with an
\* error: the generator catches it and returns, fetchRecord throws.
FetchRecordFails ==
    /\ Len(cursor.fetched) < MaxFetches
    /\ cursor.generator.state # "completed"
    /\ \E advanceSteps \in AdvanceSteps :
          cursor' = Replay(cursor.gameId, Generator("completed", cursor.generator.cursorIndex),
                           Append(cursor.fetched, advanceSteps), NoRecord, TRUE)
    /\ UNCHANGED << searchVars, appVars, replayLog, instances, loggerWriter, now,
                    updates, restore >>

\* The game being replayed is the one being played: update has logged
\* another move and added its key to the reader.
ReplayedGameGrows ==
    /\ Len(instances[cursor.gameId].primaryKeys) <= MaxKeys
    /\ now' = now + 1
    /\ replayLog' = storeXact(replayLog, "put",
                        Record(now + 1, cursor.gameId,
                               Len(instances[cursor.gameId].primaryKeys),
                               LastMove(cursor.gameId, Len(instances[cursor.gameId].primaryKeys))))
    /\ instances' = addPrimaryKey(instances, cursor.gameId, now + 1)
    /\ UNCHANGED << searchVars, appVars, loggerWriter, updates, cursor, restore >>

ReplayInit ==
    /\ SearchIdle
    /\ AppInit
    /\ settings = factorySettings
    /\ \E perGame \in 1 .. MaxKeys :
          /\ replayLog = StoredLog(1, perGame)
          /\ instances = [g \in {1} |->
                            [primaryKeys |-> getKeysFromIndexOnly(StoredLog(1, perGame), g)]]
          /\ now = perGame + 1
    /\ loggerWriter = [gameId |-> 1, move |-> 0]
    /\ updates = << >>
    /\ cursor = Replay(1, Generator("suspendedStart", 0), << >>, NoRecord, FALSE)
    /\ restore = << >>

ReplayNext ==
    \/ FetchRecord
    \/ FetchRecordFails
    \/ ReplayedGameGrows

\* The replay of one game that has at least one record.
ReplaySpec == ReplayInit /\ [][ReplayNext]_vars

\* -------------------------------------------------- the settings store

\* How many times the factory defaults are restored in a session.
MaxRestores == 3

\* The five groups of the settings, in the order restoreFactoryDefault
\* writes them.
SettingsGroups ==
    << "winningRules", "searchRules", "materialAdvantageConquered",
       "safetyZoneProximity", "materialAdvantageAccounted" >>

\* A restoreFactoryDefault call and the Settings object store: the
\* record stored for each group, the state of the call ("idle",
\* "pending", "resolved", "rejected"), the puts answered so far, the
\* settings in memory when the call was made, and the calls made.
Restore(store, outcome, puts, before, made) ==
    [store |-> store, outcome |-> outcome, puts |-> puts, before |-> before,
     made |-> made]

\* The user chooses the recycle icon: restoreFactoryDefault sends the
\* put of the first group and awaits it.
RestoreCall ==
    /\ restore.outcome # "pending"
    /\ restore.made < MaxRestores
    /\ restore' = Restore(restore.store, "pending", 0, settings, restore.made + 1)
    /\ UNCHANGED << searchVars, domBoardState, classList, settings, isFatalError,
                    terminated, tasks, calls, listeners, workerInbox, mainInbox, journal,
                    replayLog, instances, loggerWriter, now, updates, cursor >>

\* Variant: each group is replaced in memory as soon as its put has
\* succeeded.
RestorePutEager ==
    /\ restore.outcome = "pending"
    /\ LET group == SettingsGroups[restore.puts + 1]
       IN  /\ restore' = Restore([restore.store EXCEPT ![group] = factorySettings[group]],
                                 IF restore.puts + 1 = Len(SettingsGroups)
                                 THEN "resolved" ELSE "pending",
                                 restore.puts + 1, restore.before, restore.made)
           /\ settings' = [settings EXCEPT ![group] = factorySettings[group]]
    /\ UNCHANGED << searchVars, domBoardState, classList, isFatalError,
                    terminated, tasks, calls, listeners, workerInbox, mainInbox, journal,
                    replayLog, instances, loggerWriter, now, updates, cursor >>

\* A put is answered without error: the factory record of the group is
\* in the store.  After the fifth one the five groups in memory are
\* replaced by clones of the factory values and the call resolves;
\* before, the put of the next group is sent.
RestorePut ==
    /\ restore.outcome = "pending"
    /\ LET group == SettingsGroups[restore.puts + 1]
           last  == restore.puts + 1 = Len(SettingsGroups)
       IN  /\ restore' = Restore([restore.store EXCEPT ![group] = factorySettings[group]],
                                 IF last THEN "resolved" ELSE "pending",
                                 restore.puts + 1, restore.before, restore.made)
           /\ settings' = IF last
                          THEN [settings EXCEPT
                                  !.winningRules = factorySettings.winningRules,
                                  !.searchRules = factorySettings.searchRules,
                                  !.materialAdvantageConquered =
                                      factorySettings.materialAdvantageConquered,
                                  !.safetyZoneProximity = factorySettings.safetyZoneProximity,
                                  !.materialAdvantageAccounted =
                                      factorySettings.materialAdvantageAccounted]
                          ELSE settings
    /\ UNCHANGED << searchVars, domBoardState, classList, isFatalError,
                    terminated, tasks, calls, listeners, workerInbox, mainInbox, journal,
                    replayLog, instances, loggerWriter, now, updates, cursor >>

\* A put fails: the worker answers with an error (nothing written), or
\* dispatchWorker rejects (the record written or not); the call rejects.
RestorePutFails ==
    /\ restore.outcome = "pending"
    /\ LET group == SettingsGroups[restore.puts + 1]
       IN  \E written \in BOOLEAN :
              restore' = Restore(IF written
                                 THEN [restore.store EXCEPT ![group] = factorySettings[group]]
                                 ELSE restore.store,
                                 "rejected", restore.puts, restore.before, restore.made)
    /\ UNCHANGED << searchVars, domBoardState, classList, settings, isFatalError,
                    terminated, tasks, calls, listeners, workerInbox, mainInbox, journal,
                    replayLog, instances, loggerWriter, now, updates, cursor >>

\* The page with settings loaded from the store.
RestoreInit ==
    /\ SearchIdle
    /\ AppInit
    /\ settings \in SettingsSnapshots
    /\ replayLog = {}
    /\ instances = << >>
    /\ loggerWriter = [gameId |-> 0, move |-> 0]
    /\ now = 0
    /\ updates = << >>
    /\ cursor = << >>
    /\ restore = Restore([i \in {SettingsGroups[k] : k \in 1 .. Len(SettingsGroups)} |->
                             settings[i]],
                         "idle", 0, settings, 0)

RestoreNext ==
    \/ RestoreCall
    \/ RestorePut
    \/ RestorePutFails

\* The settings dialog restoring the factory defaults.
RestoreSpec == RestoreInit /\ [][RestoreNext]_vars

\* ================================================================ claims

\* The player records of a board by role.
BotOf(b) == b.playerState[FindIndex(b.playerState, "isMaximizing", TRUE)]

UserOf(b) == b.playerState[FindIndex(b.playerState, "isMaximizing", FALSE)]

TurnOf(b) == b.playerState[FindIndex(b.playerState, "turn", TRUE)]

\* The root candidates of the call: the moves of the position findBestMove
\* was called on.
RootMoves == getAllPossibleMoves(preCall, TurnOf(preCall))

\* C1 (purity, no leak): when findBestMove returns a move, the board is
\* structurally identical to the board it was called on: every cell's
\* stack, direction and secured flag, and both players' records.
C1_PurityNoLeak ==
    status = "returned" =>
        /\ boardState = preCall
        /\ \A c \in CellIds : boardState.cells[c] = preCall.cells[c]
        /\ \A k \in 1 .. 2 : boardState.playerState[k] = preCall.playerState[k]

\* A call that returned after trying several root moves, with branches
\* pruned on the way.
C1_Witness ==
    /\ status = "returned"
    /\ Len(rootLog) >= 2
    /\ counts.pruned > 0
    /\ counts.applied > Len(rootLog)

RECURSIVE PathBoard(_)
\* The position k plies below the root position: the moves the lowest k
\* activations are searching, applied in order to the board of the call.
PathBoard(k) ==
    IF k = 0 THEN preCall
    ELSE LET move == stack[k].possibleMoves[stack[k].i]
         IN  applyMoveAndTurn(PathBoard(k - 1), move[1], move[2])

\* C3 (apply/undo discipline): at every moment of a search the moves
\* applied and not yet undone are exactly the moves the activations below
\* the current one are searching, one per nesting level: their number is
\* the nesting depth, the board is the root position with exactly these
\* moves applied, each waiting activation holds the snapshot taken of the
\* position just before its move was applied, and the current activation
\* holds none.  Outside a search every applied move has been undone.
C3_ApplyUndoDiscipline ==
    /\ status = "running" =>
        /\ counts.applied - counts.undone = Len(stack) - 1
        /\ boardState = PathBoard(Len(stack) - 1)
        /\ Top.loggedMove = NoLoggedMove
        /\ \A k \in 1 .. (Len(stack) - 1) :
              LET move   == stack[k].possibleMoves[stack[k].i]
                  before == PathBoard(k - 1)
              IN  /\ stack[k].loggedMove.srcCell.id = move[1]
                  /\ stack[k].loggedMove.tgtCell.id = move[2]
                  /\ stack[k].loggedMove.playerState = before.playerState
                  /\ stack[k].loggedMove.srcCell.svgLayout = before.cells[move[1]].svgLayout
                  /\ stack[k].loggedMove.tgtCell.svgLayout = before.cells[move[2]].svgLayout
                  /\ stack[k].loggedMove.srcCell.dot = before.cells[move[1]].dot
                  /\ stack[k].loggedMove.tgtCell.dot = before.cells[move[2]].dot
                  /\ stack[k].loggedMove.srcCell.direction = before.cells[move[1]].direction
                  /\ stack[k].loggedMove.tgtCell.direction = before.cells[move[2]].direction
                  /\ stack[k + 1].depth = stack[k].depth + 1
    /\ status # "running" => counts.applied = counts.undone

\* The deepest nesting (the root move and five plies of minimax) after a
\* pruning break has already cut a node short.
C3_Witness ==
    /\ status = "running"
    /\ Len(stack) = max_search_depth + 2
    /\ counts.pruned > 0
    /\ counts.undone > 0

SetMax(S) == CHOOSE x \in S : \A y \in S : y <= x

SetMin(S) == CHOOSE x \in S : \A y \in S : x <= y

RECURSIVE ExhaustiveMinimax(_, _)
\* The value of a node by exhaustive minimax, without a window: the same
\* terminal test, depth cutoff and heuristic; every move of the mover is
\* searched; a mover without a move gets -Infinity (maximizer) or
\* Infinity (minimizer).
ExhaustiveMinimax(b, depth) ==
    LET evaluation == getTerminalNodeState(b, depth, winningRules)
        mover      == TurnOf(b)
        moves      == getAllPossibleMoves(b, mover)
        values     == { ExhaustiveMinimax(applyMoveAndTurn(b, moves[k][1], moves[k][2]), depth + 1) :
                          k \in 1 .. Len(moves) }
    IN  IF ~evaluation.isNull THEN evaluation.value
        ELSE IF mover.isMaximizing THEN SetMax(values \cup {NegInfinity})
        ELSE SetMin(values \cup {Infinity})

\* The score of the k-th root candidate by exhaustive minimax.
ExhaustiveRootScore(k) ==
    ExhaustiveMinimax(applyMoveAndTurn(preCall, RootMoves[k][1], RootMoves[k][2]), 0)

\* The first root candidate whose score is the largest of `scores`.
FirstMaximum(scores) ==
    LET top == SetMax({scores[k] : k \in 1 .. Len(scores)})
    IN  RootMoves[CHOOSE k \in 1 .. Len(scores) :
                     /\ scores[k] = top
                     /\ \A j \in 1 .. (k - 1) : scores[j] # top]

\* C4 (alpha-beta equivalence): when findBestMove returns, the score it
\* computed for each root move is the score of exhaustive, unpruned
\* minimax for that move, and the move returned is the first root move
\* with the largest exhaustive score.
C4_AlphaBetaEquivalence ==
    status = "returned" =>
        LET exhaustive == [k \in 1 .. Len(RootMoves) |-> ExhaustiveRootScore(k)]
        IN  /\ rootLog = exhaustive
            /\ result = FirstMaximum(exhaustive)

\* A call that returned after pruning, with a finite (heuristic) score
\* for some root move and with root moves of different scores.
C4_Witness ==
    /\ status = "returned"
    /\ counts.pruned > 0
    /\ \E k \in 1 .. Len(rootLog) : rootLog[k] > NegInfinity /\ rootLog[k] < Infinity
    /\ \E j, k \in 1 .. Len(rootLog) : rootLog[j] # rootLog[k]

\* C5 (tie-break determinism): the move returned is the first root move,
\* in generator order, among those whose score is the largest score any
\* root move got.
C5_TieBreakFirst ==
    status = "returned" =>
        \E k \in 1 .. Len(rootLog) :
            /\ result = RootMoves[k]
            /\ \A j \in 1 .. Len(rootLog) : rootLog[j] <= rootLog[k]
            /\ \A j \in 1 .. (k - 1) : rootLog[j] < rootLog[k]

\* A call that returned with two root moves sharing the largest score,
\* that score being above -Infinity (the incumbent was set, the tie not
\* taken).
C5_Witness ==
    /\ status = "returned"
    /\ \E j, k \in 1 .. Len(rootLog) :
          /\ j < k
          /\ rootLog[j] = rootLog[k]
          /\ rootLog[j] > NegInfinity
          /\ \A n \in 1 .. Len(rootLog) : rootLog[n] <= rootLog[j]

\* C6 (no-move fallback): when every root move scored -Infinity the first
\* root move is returned; and a call that returns always returns one of
\* the root moves, never null.
C6_FallbackFirst ==
    status = "returned" =>
        /\ (\A k \in 1 .. Len(rootLog) : rootLog[k] = NegInfinity) => result = RootMoves[1]
        /\ result # NullMove
        /\ \E k \in 1 .. Len(RootMoves) : result = RootMoves[k]

\* A call with several root moves, all of which scored -Infinity.
C6_Witness ==
    /\ status = "returned"
    /\ Len(rootLog) >= 2
    /\ \A k \in 1 .. Len(rootLog) : rootLog[k] = NegInfinity

\* The error messages of findBestMove.
WrongTurnError == "findBestMove must be invoked for the bot AI opponent (maximizing player)."

NoLegalMovesError == "could not determine possible moves"

NoCalls == [generated |-> 0, applied |-> 0, undone |-> 0, evaluated |-> 0, pruned |-> 0]

\* C7 (precondition, wrong turn): a findBestMove call on a board whose
\* active player is the minimizing player ends by throwing the wrong-turn
\* error; the board is unchanged and no move was generated, applied or
\* undone.
C7_WrongTurnThrows ==
    (status # "idle" /\ TurnOf(preCall).isMaximizing = FALSE) =>
        /\ status = "thrown"
        /\ result = WrongTurnError
        /\ boardState = preCall
        /\ counts = NoCalls
        /\ stack = << >>

\* A call that threw on a board where the user had the turn and had
\* moves to play, and the bot had moves too.
C7_Witness ==
    /\ status = "thrown"
    /\ TurnOf(preCall).isMaximizing = FALSE
    /\ Len(getAllPossibleMoves(preCall, UserOf(preCall))) > 0
    /\ Len(getAllPossibleMoves(preCall, BotOf(preCall))) > 0

AtNodeEntry == status = "running" /\ Top.fn = "minimax" /\ Top.pc = "enter"

BotWon == checkWin(boardState, BotOf(boardState), winningRules)

UserWon == checkWin(boardState, UserOf(boardState), winningRules)

\* The step taken at the node returns v to the caller: the activation is
\* gone, and no move was generated or applied.
NodeReturns(v) ==
    /\ retval' = v
    /\ Len(stack') = Len(stack) - 1
    /\ counts'.generated = counts.generated
    /\ counts'.applied = counts.applied
    /\ counts'.evaluated = counts.evaluated + 1

\* C9 (terminal test order): the step minimax takes on entering a node
\* returns Infinity when the maximizer has won (whatever else holds),
\* else -Infinity when the minimizer has won, else the heuristic score
\* when the depth is the cutoff, each without generating or applying a
\* move; only otherwise are the mover's moves generated.
C9_TerminalTestOrder ==
    [][ AtNodeEntry =>
          IF BotWon THEN NodeReturns(Infinity)
          ELSE IF UserWon THEN NodeReturns(NegInfinity)
          ELSE IF Top.depth = max_search_depth
               THEN NodeReturns(HeuristicScore(boardState, BotOf(boardState), UserOf(boardState)))
               ELSE /\ Len(stack') = Len(stack)
                    /\ stack'[Len(stack)].pc = "loop"
                    /\ stack'[Len(stack)].possibleMoves
                         = getAllPossibleMoves(boardState, TurnOf(boardState))
                    /\ counts'.generated = counts.generated + 1
                    /\ counts'.applied = counts.applied ]_vars

\* A node entered at depth 0 on which both players satisfy the win
\* condition, with a heuristic that would not score it Infinity.
C9_Witness ==
    /\ AtNodeEntry
    /\ Top.depth = 0
    /\ BotWon /\ UserWon
    /\ HeuristicScore(boardState, BotOf(boardState), UserOf(boardState)) < Infinity

RECURSIVE SumOver(_, _)
\* The sum of weight[c] over the cells c of S.
SumOver(S, weight) ==
    IF S = {} THEN 0
    ELSE LET c == CHOOSE x \in S : TRUE
         IN  weight[c] + SumOver(S \ {c}, weight)

OwnedBy(b, id) == {c \in CellIds : TopOwner(b.cells[c]) = id}

SecuredBy(b, id) == {c \in OwnedBy(b, id) : b.cells[c].dot}

\* C10 (heuristic formula): on a node entered at the depth cutoff that
\* neither player has won, the value returned is
\*   10 * (#cells topped by P - #cells topped by Q)
\* + 10 * (sum of row + 1 over P's secured cells
\*         - sum of 6 - row over Q's secured cells)
\* + 20 * (P.vault.opponent - Q.vault.opponent),
\* P the maximizing and Q the minimizing player.
C10_HeuristicFormula ==
    [][ (AtNodeEntry /\ Top.depth = 4 /\ ~BotWon /\ ~UserWon) =>
          LET P == BotOf(boardState)
              Q == UserOf(boardState)
          IN  retval' =
                  10 * (Cardinality(OwnedBy(boardState, P.id))
                        - Cardinality(OwnedBy(boardState, Q.id)))
                + 10 * (SumOver(SecuredBy(boardState, P.id), [c \in CellIds |-> CellRow(c) + 1])
                        - SumOver(SecuredBy(boardState, Q.id), [c \in CellIds |-> 6 - CellRow(c)]))
                + 20 * (P.vault.opponent - Q.vault.opponent) ]_vars

\* A cutoff node neither player has won, on which both players hold a
\* secured tower and the two vaults differ.
C10_Witness ==
    /\ AtNodeEntry /\ Top.depth = 4 /\ ~BotWon /\ ~UserWon
    /\ SecuredBy(boardState, PLAYER_ID.BOT) # {}
    /\ SecuredBy(boardState, PLAYER_ID.USER) # {}
    /\ BotOf(boardState).vault.opponent # UserOf(boardState).vault.opponent

\* The board with the content of one cell replaced.
WithCell(b, c, cell) == [b EXCEPT !.cells[c] = cell]

\* The cutoff block is reached: minimax entered at the depth cutoff on a
\* board neither player has won.
AtCutoffNode == AtNodeEntry /\ Top.depth = max_search_depth /\ ~BotWon /\ ~UserWon

\* C11 (heuristic monotonicity): on every board the cutoff block scores,
\* changing one quantity of the maximizer and nothing else strictly raises
\* the score: one more cell topped by the maximizer (an unsecured piece on
\* an empty cell), a larger secured-tower weight (a tower of the maximizer
\* becoming secured, or a secured tower standing one row higher), one more
\* captured stone in the maximizer's vault.opponent.
C11_HeuristicMonotone ==
    AtCutoffNode =>
        LET P     == BotOf(boardState)
            Q     == UserOf(boardState)
            score == HeuristicScore(boardState, P, Q)
        IN  /\ \A c \in CellIds :
                  boardState.cells[c] = EmptyCell =>
                      HeuristicScore(WithCell(boardState, c, BotPiece), P, Q) > score
            /\ \A c \in CellIds :
                  (TopOwner(boardState.cells[c]) = P.id /\ ~boardState.cells[c].dot) =>
                      HeuristicScore(WithCell(boardState, c,
                                              [boardState.cells[c] EXCEPT !.dot = TRUE]), P, Q) > score
            /\ \A c \in CellIds :
                  (/\ TopOwner(boardState.cells[c]) = P.id /\ boardState.cells[c].dot
                   /\ c + NumCols \in CellIds /\ boardState.cells[c + NumCols] = EmptyCell) =>
                      HeuristicScore(WithCell(WithCell(boardState, c + NumCols, boardState.cells[c]),
                                              c, EmptyCell), P, Q) > score
            /\ HeuristicScore(boardState, [P EXCEPT !.vault.opponent = @ + 1], Q) > score

\* A cutoff node the heuristic scores, with an empty cell, an unsecured
\* and a secured tower of the maximizer (with room above it), and
\* material already captured by the maximizer.
C11_Witness ==
    /\ AtCutoffNode
    /\ \E c \in CellIds : boardState.cells[c] = EmptyCell
    /\ \E c \in CellIds : TopOwner(boardState.cells[c]) = PLAYER_ID.BOT /\ ~boardState.cells[c].dot
    /\ \E c \in CellIds :
          /\ TopOwner(boardState.cells[c]) = PLAYER_ID.BOT /\ boardState.cells[c].dot
          /\ c + NumCols \in CellIds /\ boardState.cells[c + NumCols] = EmptyCell
    /\ BotOf(boardState).vault.opponent > 0

\* An envelope that follows workerMessageScheme: exactly the keys request
\* and response, request.type a string, request.parameter an array,
\* response.error a boolean.
WellFormed(envelope) ==
    /\ envelope.keys = {"request", "response"}
    /\ envelope.typeTag = "String"
    /\ envelope.parameterTag = "Array"
    /\ envelope.errorTag = "Boolean"

\* C13 (late response discarded): once a call has resolved by timeout its
\* outcome stays the timeout response, and the response to its request is
\* never the value a call made after that timeout resolves with.
C13_LateResponseDiscarded ==
    \A j \in 1 .. Len(calls) :
        /\ calls[j].settledBy = "timeout" => calls[j].outcome = Resolved(timeoutMessage)
        /\ \A i \in calls[j].after :
              ~(/\ calls[j].outcome.state = "resolved"
                /\ calls[j].settledBy = "message"
                /\ calls[j].outcome.value.id = i)

\* C17 (envelope validation, both directions): every request waiting at
\* the worker follows the scheme; a call whose request does not follow it
\* has posted nothing and is rejected; and a call that resolved resolved
\* with an envelope that follows the scheme.
C17_EnvelopeValidation ==
    /\ \A k \in 1 .. Len(workerInbox) : WellFormed(workerInbox[k])
    /\ \A k \in 1 .. Len(calls) :
          /\ ~WellFormed(calls[k].message) =>
                /\ ~calls[k].posted
                /\ calls[k].outcome.state = "rejected"
                /\ \A n \in 1 .. Len(workerInbox) : workerInbox[n].id # k
          /\ calls[k].outcome.state = "resolved" => WellFormed(calls[k].outcome.value)

\* Two calls: one made with a request whose response.error is not a
\* boolean, rejected without a post; one whose listener was handed a
\* response that does not follow the scheme and rejected the call for it.
C17_Witness ==
    /\ \E k \in 1 .. Len(calls) :
          /\ calls[k].message.errorTag = "String"
          /\ calls[k].settledBy = "request"
    /\ \E k \in 1 .. Len(calls) :
          /\ calls[k].posted /\ calls[k].heard
          /\ calls[k].settledBy = "message"
          /\ calls[k].outcome.state = "rejected"

\* A call of playBotMove: its request asks for findBestMove.
AiCalls == {k \in 1 .. Len(calls) : calls[k].message.type = "findBestMove"}

\* C12 -- timeout independence: a call of dispatchWorker whose timer fired
\* before any event of the worker reached it is resolved, neither
\* rejected nor pending, with response.error = true and response.message
\* = "timeout", and stays so whatever the worker answers afterwards; the
\* calls made for the AI request carry the configured search timeout (10
\* seconds) times 1000.
C12_TimeoutIndependence ==
    \A k \in 1 .. Len(calls) :
        /\ calls[k].timerFirst =>
              /\ calls[k].outcome.state = "resolved"
              /\ calls[k].outcome.value.error = TRUE
              /\ calls[k].outcome.value.message = Message("String", << >>, "timeout")
        /\ k \in AiCalls => calls[k].timeout = 10 * 1000

\* The timer of an AI call fired first and the worker's answer came in
\* afterwards, heard by the listener the call had left behind.
C12_Witness ==
    \E k \in AiCalls :
        /\ calls[k].timerFirst
        /\ calls[k].heard
        /\ calls[k].settledBy = "timeout"

\* The AI calls whose request is out and whose promise is not settled.
InFlight == {k \in AiCalls : calls[k].posted /\ calls[k].outcome.state = "pending"}

\* C14 -- at most one findBestMove request is in flight on the AI worker
\* at any time (no second user move is applied and no second request
\* dispatched between a user move and the bot's reply to it).
C14_OneRequestInFlight == Cardinality(InFlight) <= 1

\* C15 -- a failed AI dispatch is fatal for the session: once playBotMove
\* has thrown on the response of its call (an error response, a timeout,
\* a rejected call, a move that fails validation), the move of that call
\* is not applied and no move of either side is applied to the live board
\* any more.
C15_FailedDispatchFatal ==
    [][journal.aiFailed =>
          /\ journal'.applied = journal.applied
          /\ journal'.refused \cap journal'.botApplied = {}]_vars

\* C16 -- teardown on fatal error: once the window error handler has run
\* (isFatalError is set), both the AI worker and the DB worker are
\* terminated.
C16_TeardownOnFatal == isFatalError => (terminated.ai /\ terminated.db)

\* Both cell identifiers of the move in a response are present, numeric
\* and name cells of the live board.
ResolvableMove(respMsg) ==
    /\ respMsg.message.kind = "move"
    /\ Len(respMsg.message.ids) = 2
    /\ respMsg.message.ids[1] \in CellIds
    /\ respMsg.message.ids[2] \in CellIds

\* The calls whose response playBotMove has looked at.
Answered == journal.accepted \cup journal.refused

\* C18 -- malformed move rejection: the move of a worker response is
\* applied to the live board only if both its cell identifiers are
\* present, numeric and resolve to cells of the board; for any other
\* response playBotMove throws and its move is never applied.
C18_MalformedMoveRejected ==
    /\ \A k \in journal.accepted \cup journal.botApplied :
          /\ calls[k].outcome.state = "resolved"
          /\ ResolvableMove(calls[k].outcome.value)
    /\ \A k \in Answered :
          ~ResolvableMove(calls[k].outcome.value) => k \in journal.refused
    /\ journal.botApplied \subseteq journal.accepted
    /\ journal.refused \cap journal.accepted = {}
    /\ DOMAIN domBoardState.cells = CellIds

\* One response was applied as a move, and another one, a well-formed
\* envelope without error whose move names no cell or lacks an
\* identifier, was refused.
C18_Witness ==
    /\ journal.botApplied # {}
    /\ \E k \in journal.refused :
          /\ calls[k].outcome.state = "resolved"
          /\ calls[k].outcome.value.error = FALSE
          /\ calls[k].outcome.value.message.kind = "move"
          /\ ~ResolvableMove(calls[k].outcome.value)

\* The identifiers of the players of the live board whose turn flag is set.
TurnHolders(dom) ==
    {dom.playerState[k].id : k \in {j \in 1 .. 2 : dom.playerState[j].turn = TRUE}}

\* C19 -- turn invariant: on the live board exactly one player has turn =
\* true, at board creation and after every step; the flag goes to the
\* other player with every applied move; after resetGame the user has it.
C19_TurnInvariant ==
    /\ Cardinality(TurnHolders(domBoardState)) = 1
    /\ [][/\ Cardinality(TurnHolders(domBoardState')) = 1
          /\ journal'.applied # journal.applied =>
                TurnHolders(domBoardState') # TurnHolders(domBoardState)
          /\ journal'.restarts # journal.restarts =>
                TurnHolders(domBoardState') = {PLAYER_ID.USER}]_vars

\* resetGame has run while the bot had the turn: a user move was applied
\* and is still being logged, and the user holds the turn again.
C19_Witness ==
    /\ journal.restarts = 1
    /\ journal.userMoves = 1
    /\ \E k \in 1 .. Len(tasks) : tasks[k].fn = "playUserMove" /\ tasks[k].pc = "logger"
    /\ TurnHolders(domBoardState) = {PLAYER_ID.USER}

\* The placement the claim describes, cell by cell: one user piece with
\* direction +1 on rows 0 and 1, one bot piece with direction -1 on rows
\* 4 and 5, nothing on rows 2 and 3, no cell secured.
InitialPlacement(cells) ==
    \A c \in CellIds :
        /\ cells[c].dot = FALSE
        /\ CellRow(c) \in {0, 1} =>
              cells[c].svgLayout = << PLAYER_ID.USER >> /\ cells[c].direction = 1
        /\ CellRow(c) \in {4, 5} =>
              cells[c].svgLayout = << PLAYER_ID.BOT >> /\ cells[c].direction = 0 - 1
        /\ CellRow(c) \in {2, 3} =>
              cells[c].svgLayout = << >> /\ cells[c].direction = 0

\* C20 -- reset restores the initial placement: from every reachable
\* state resetGame yields the state of board creation (the placement
\* above, vaults and secured-tower counters 0, no winner, board events
\* enabled, not waiting for the worker), and a second resetGame changes
\* nothing.
C20_ResetRestoresInitial ==
    LET once == resetGame(domBoardState)
    IN  /\ once = createBoard
        /\ InitialPlacement(once.cells)
        /\ \A k \in 1 .. 2 :
              /\ once.playerState[k].vault = [self |-> 0, opponent |-> 0]
              /\ once.playerState[k].safetyTower = 0
              /\ once.playerState[k].winner = FALSE
        /\ once.disableBoardEvents = FALSE
        /\ once.waitForWebWorker = FALSE
        /\ resetGame(once) = once

\* A restart after moves of both sides: towers had been stacked or
\* captured, vaults filled, and the live board is the initial one again.
C20_Witness ==
    /\ journal.restarts = 1
    /\ journal.botApplied # {}
    /\ journal.userMoves >= 1
    /\ domBoardState = createBoard

\* The activation on top of the stack is a minimax call and this step
\* ends it: the value goes back to the caller.
MinimaxEnds ==
    /\ status = "running"
    /\ Top.fn = "minimax"
    /\ Len(stack') = Len(stack) - 1

\* The window the minimax call on top of the stack was called with: the
\* caller's alpha and beta, which the caller does not touch until the
\* call is back (findBestMove passes -Infinity and Infinity).
CalledAlpha ==
    IF stack[Len(stack) - 1].fn = "minimax" THEN stack[Len(stack) - 1].alpha ELSE NegInfinity

CalledBeta ==
    IF stack[Len(stack) - 1].fn = "minimax" THEN stack[Len(stack) - 1].beta ELSE Infinity

\* C24 -- fail-soft alpha-beta bound: every minimax call is made with a
\* window alpha < beta, and with v the exhaustive depth-limited value of
\* its node it returns v when alpha < v < beta, a value <= alpha when
\* v <= alpha and a value >= beta when v >= beta; called with the full
\* window (every root child) it returns exactly v.
C24_FailSoftBound ==
    [][ MinimaxEnds =>
          LET v == ExhaustiveMinimax(boardState, Top.depth)
          IN  /\ CalledAlpha < CalledBeta
              /\ (CalledAlpha < v /\ v < CalledBeta) => retval' = v
              /\ v <= CalledAlpha => retval' <= CalledAlpha
              /\ v >= CalledBeta => retval' >= CalledBeta
              /\ (CalledAlpha = NegInfinity /\ CalledBeta = Infinity) => retval' = v ]_vars

\* A minimax call about to return from the pruning break, inside a
\* window narrower than the full one, with a value that is a bound and
\* not the exhaustive value of its node.
C24_Witness ==
    /\ status = "running"
    /\ Top.fn = "minimax"
    /\ Top.pc = "break"
    /\ CalledAlpha > NegInfinity
    /\ CalledBeta < Infinity
    /\ Top.best # ExhaustiveMinimax(boardState, Top.depth)

\* The minimax activation below the one on top: the caller the value
\* goes back to.
Caller == stack[Len(stack) - 1]

\* C25 -- pruning cut: a minimax node tries its children in the order
\* the move generator gave them; after each child the maximizer does
\* best = max(best, value), alpha = max(alpha, best) and the minimizer
\* best = min(best, value), beta = min(beta, best); as soon as
\* beta <= alpha the loop is left and no further sibling is applied,
\* and while beta > alpha the next sibling is the one that follows.
C25_PruningCut ==
    [][ /\ (MinimaxEnds /\ Caller.fn = "minimax") =>
              LET c == Caller
                  f == stack'[Len(stack')]
              IN  /\ c.maximizing =>
                        /\ f.best = Max(c.best, retval')
                        /\ f.alpha = Max(c.alpha, f.best)
                        /\ f.beta = c.beta
                  /\ ~c.maximizing =>
                        /\ f.best = Min(c.best, retval')
                        /\ f.beta = Min(c.beta, f.best)
                        /\ f.alpha = c.alpha
                  /\ f.beta <= f.alpha => f.pc = "break" /\ f.i = c.i
                  /\ f.beta > f.alpha => f.pc = "loop" /\ f.i = c.i + 1
        /\ (status = "running" /\ Top.fn = "minimax" /\ Top.pc = "break") =>
              /\ Len(stack') = Len(stack) - 1
              /\ counts'.applied = counts.applied
              /\ retval' = Top.best
        /\ (status = "running" /\ Top.fn = "minimax" /\ Top.pc = "enter"
              /\ Len(stack') = Len(stack)) =>
              LET f == stack'[Len(stack')]
                  mover == boardState.playerState[FindIndex(boardState.playerState, "turn", TRUE)]
              IN  f.i = 1 /\ f.possibleMoves = getAllPossibleMoves(boardState, mover)
        /\ (status = "running" /\ Top.fn = "minimax" /\ Top.pc = "loop") =>
              IF Top.i <= Len(Top.possibleMoves)
              THEN /\ Top.beta > Top.alpha
                   /\ Len(stack') = Len(stack) + 1
                   /\ boardState' = applyMoveAndTurn(boardState, Top.possibleMoves[Top.i][1],
                                                     Top.possibleMoves[Top.i][2])
              ELSE Len(stack') = Len(stack) - 1 ]_vars

\* A minimax node that left its loop by the break with siblings it
\* never applied.
C25_Witness ==
    /\ status = "running"
    /\ Top.fn = "minimax"
    /\ Top.pc = "break"
    /\ Top.beta <= Top.alpha
    /\ Top.i < Len(Top.possibleMoves)

\* The findBestMove call is over: it returned a move or threw.
SearchDone == status \in {"returned", "thrown"}

\* The activations of a running search: findBestMove at the bottom and
\* above it minimax calls at depths 0, 1, 2, ... and never deeper than 4,
\* so the board is at most 5 plies away from the root position.
DepthBounded ==
    status = "running" =>
        /\ Len(stack) >= 1 /\ Len(stack) <= 6
        /\ stack[1].fn = "findBestMove"
        /\ \A k \in 2 .. Len(stack) :
               /\ stack[k].fn = "minimax"
               /\ stack[k].depth = k - 2
               /\ stack[k].depth >= 0 /\ stack[k].depth <= 4
        /\ counts.applied - counts.undone = Len(stack) - 1
        /\ counts.applied - counts.undone <= 5

\* A node where minimax answers with a score that is not a win score
\* is a node of depth 4 that neither player has won.
HeuristicOnlyAtCutoff ==
    (status = "running" /\ Top.fn = "minimax" /\ Top.pc = "enter") =>
        LET evaluation == getTerminalNodeState(boardState, Top.depth, winningRules)
        IN  (~evaluation.isNull /\ ~BotWon /\ ~UserWon) =>
                Top.depth = 4

\* C26 -- bounded search: minimax is only entered with 0 <= d <= 4, the
\* heuristic is only evaluated at nodes of depth 4 that are not won, no
\* position more than 5 plies after the root is reached, and every
\* findBestMove call terminates (returns or throws).
C26_BoundedSearch ==
    /\ [](DepthBounded /\ HeuristicOnlyAtCutoff)
    /\ <>SearchDone

\* minimax entered at depth 4, five plies after the root, on a position
\* nobody has won: the heuristic is about to be evaluated.
C26_Witness ==
    /\ status = "running"
    /\ Len(stack) = 6
    /\ Top.fn = "minimax" /\ Top.pc = "enter" /\ Top.depth = 4
    /\ ~BotWon /\ ~UserWon

\* minimax stands in its loop on a node whose mover has no legal move.
AtStalemateNode ==
    /\ status = "running"
    /\ Top.fn = "minimax"
    /\ Top.pc = "loop"
    /\ getAllPossibleMoves(boardState, TurnOf(boardState)) = << >>

\* C27 -- stalemate inside the tree: at a node of depth below 4 that
\* nobody has won and whose mover has no legal move, minimax applies no
\* move and returns -Infinity when the mover is the maximizer and
\* +Infinity when the mover is the minimizer.
C27_StalemateValue ==
    [][ AtStalemateNode =>
          /\ Top.depth < 4
          /\ ~BotWon /\ ~UserWon
          /\ Top.possibleMoves = << >>
          /\ Len(stack') = Len(stack) - 1
          /\ counts'.applied = counts.applied
          /\ retval' = IF TurnOf(boardState).isMaximizing = TRUE
                       THEN NegInfinity ELSE Infinity ]_vars

\* A stalemate node below the root children: minimax stands in the loop
\* of a node where the maximizer is to move and has no legal move.
C27_Witness ==
    /\ AtStalemateNode
    /\ TurnOf(boardState).isMaximizing = TRUE
    /\ Top.depth >= 1

\* The heuristic with the weights 10, 10 and 20 written out.
FixedScore(b) ==
    LET P == BotOf(b)
        Q == UserOf(b)
    IN    10 * (Cardinality(OwnedBy(b, P.id)) - Cardinality(OwnedBy(b, Q.id)))
        + 10 * (SumOver(SecuredBy(b, P.id), [c \in CellIds |-> CellRow(c) + 1])
                - SumOver(SecuredBy(b, Q.id), [c \in CellIds |-> 6 - CellRow(c)]))
        + 20 * (P.vault.opponent - Q.vault.opponent)

RECURSIVE FixedValue(_, _)
\* The minimax value of a position with the cutoff at depth 4 and the
\* weights 10, 10, 20, whatever the settings say.
FixedValue(b, depth) ==
    LET mover  == TurnOf(b)
        moves  == getAllPossibleMoves(b, mover)
        values == { FixedValue(applyMoveAndTurn(b, moves[k][1], moves[k][2]), depth + 1) :
                      k \in 1 .. Len(moves) }
    IN  IF checkWin(b, BotOf(b), winningRules) THEN Infinity
        ELSE IF checkWin(b, UserOf(b), winningRules) THEN NegInfinity
        ELSE IF depth = 4 THEN FixedScore(b)
        ELSE IF mover.isMaximizing = TRUE THEN SetMax(values \cup {NegInfinity})
        ELSE SetMin(values \cup {Infinity})

\* The first move of the position, in generator order, with the largest
\* fixed value.
FixedBestMove(b) ==
    LET moves  == getAllPossibleMoves(b, TurnOf(b))
        scores == [k \in 1 .. Len(moves) |->
                      FixedValue(applyMoveAndTurn(b, moves[k][1], moves[k][2]), 0)]
        top    == SetMax({scores[k] : k \in 1 .. Len(moves)})
    IN  moves[CHOOSE k \in 1 .. Len(moves) :
                 /\ scores[k] = top
                 /\ \A j \in 1 .. (k - 1) : scores[j] # top]

\* The success responses the worker has posted.
MovesPosted == { k \in 1 .. Len(mainInbox) : mainInbox[k].data.error = FALSE }

ConfiguredScore(b, snapshot) ==
    LET P == BotOf(b)
        Q == UserOf(b)
    IN    snapshot.materialAdvantageConquered.totalWeight
              * (Cardinality(OwnedBy(b, P.id)) - Cardinality(OwnedBy(b, Q.id)))
        + snapshot.safetyZoneProximity.totalWeight
              * (SumOver(SecuredBy(b, P.id), [c \in CellIds |-> CellRow(c) + 1])
                 - SumOver(SecuredBy(b, Q.id), [c \in CellIds |-> 6 - CellRow(c)]))
        + snapshot.materialAdvantageAccounted.totalWeight
              * (P.vault.opponent - Q.vault.opponent)

\* C22 -- the settings snapshot of the request is cached and taken into
\* account by the search: the score of a cutoff node nobody has won is
\* computed with the weights configured in that snapshot.
C22_SnapshotWeights ==
    [][ AtCutoffNode =>
          retval' = ConfiguredScore(boardState, Head(workerInbox).parameter[2]) ]_vars

\* The win test of the game loop, checkWin(domBoardState, player,
\* settings), on the board of the search with the settings snapshot the
\* request carries.
GameLoopWon(player) ==
    checkWin(boardState, player, Head(workerInbox).parameter[2].winningRules)

\* C23 -- the terminal win test of the search is the predicate of the
\* game loop with the thresholds of the settings snapshot: a node the
\* game loop would declare won for the maximizer is scored +Infinity, one
\* it would declare won for the minimizer is scored -Infinity, and no
\* other node is scored as a win.
C23_SameWinPredicate ==
    [][ AtNodeEntry =>
          IF GameLoopWon(BotOf(boardState)) THEN NodeReturns(Infinity)
          ELSE IF GameLoopWon(UserOf(boardState)) THEN NodeReturns(NegInfinity)
          ELSE \/ Len(stack') = Len(stack)
               \/ /\ Top.depth = max_search_depth
                  /\ NodeReturns(HeuristicScore(boardState, BotOf(boardState),
                                                UserOf(boardState))) ]_vars

\* The handler has work to do or is at work on the request.
HandlerBusy == workerInbox # << >>

\* The envelope the handler has to post for the request at the head of
\* the inbox is a success envelope: the request is a findBestMove
\* request and the search has returned a move.
SearchAnswered ==
    /\ Head(workerInbox).type = "findBestMove"
    /\ ~createFromStructuredClone(Head(workerInbox).parameter).threw
    /\ status = "returned"

\* C28 -- one response per request: for each request the AI worker posts
\* exactly one envelope, never none and never two: the request itself
\* with error = false and the move as message when the type is
\* findBestMove and the search returned, and an envelope with
\* error = true for any other type and when the reconstruction of the
\* board or the search threw.
C28_OneResponsePerRequest ==
    /\ [](/\ Len(workerInbox) + Len(mainInbox) = 1
          /\ HandlerBusy => ENABLED WorkerNext)
    /\ [][ mainInbox' # mainInbox =>
             /\ HandlerBusy
             /\ workerInbox' = Tail(workerInbox)
             /\ Len(mainInbox') = Len(mainInbox) + 1
             /\ mainInbox'[Len(mainInbox')].type = "message"
             /\ LET request  == Head(workerInbox)
                    response == mainInbox'[Len(mainInbox')].data
                IN  IF SearchAnswered
                    THEN response = [request EXCEPT !.error = FALSE,
                                                    !.message = Message("move", result, "")]
                    ELSE /\ response.error = TRUE
                         /\ response.message.kind = "String"
                         /\ \/ request.type # "findBestMove"
                            \/ createFromStructuredClone(request.parameter).threw
                            \/ status = "thrown" ]_vars

\* The request has been answered with an error envelope after
\* findBestMove threw for want of a legal move.
C28_Witness ==
    /\ ~HandlerBusy
    /\ Len(mainInbox) = 1
    /\ mainInbox[1].data.error = TRUE
    /\ status = "thrown"
    /\ result = "could not determine possible moves"

\* This step applies a move of the user (playUserMove) to the live board.
UserMoveApplied == journal'.userMoves = journal.userMoves + 1

\* This step applies a move of the bot (playBotMove) to the live board.
BotMoveApplied == journal'.botApplied # journal.botApplied

\* C29 -- strict alternation: the moves applied to the live board go
\* user, bot, user, bot, ... starting with the user after each reset (a
\* user move is applied when an even number of moves has been applied
\* since the reset, which is when the user holds the turn, a bot move when
\* the bot holds it); a bot move is applied only after a user move that
\* did not win, and there is one bot move for one such user move.
C29_StrictAlternation ==
    [][ /\ UserMoveApplied => TurnHolders(domBoardState) = {PLAYER_ID.USER}
        /\ BotMoveApplied =>
              /\ TurnHolders(domBoardState) = {PLAYER_ID.BOT}
              /\ ~checkWin(domBoardState, FindTurn(domBoardState, FALSE),
                           settings.winningRules)
              /\ Cardinality(journal'.botApplied) <= journal.userMoves
        /\ (UserMoveApplied \/ BotMoveApplied) =>
              TurnHolders(domBoardState') # TurnHolders(domBoardState) ]_vars

\* The game is over: a win check came out true and the board was greyed
\* (filterGray); resetGame has not run since.
GameOver == classList.filterGray

ReplyOutstanding ==
    \E k \in 1 .. Len(tasks) :
        \/ tasks[k].fn = "playUserMove" /\ tasks[k].pc = "logger"
        \/ tasks[k].fn = "playBotMove" /\ tasks[k].pc \in {"dispatch", "css1", "css2"}

\* C31 -- no reset during a search: resetGame never runs between the
\* application of a user move and the application of the bot's reply,
\* so the bot's move is always applied to exactly the position it was
\* computed for (the board of the request).
C31_NoResetDuringSearch ==
    [][ /\ journal'.restarts # journal.restarts => ~ReplyOutstanding
        /\ BotMoveApplied =>
              \E k \in 1 .. Len(tasks) :
                 /\ tasks[k].pc = "css2"
                 /\ tasks'[k].pc = "logger2"
                 /\ calls[tasks[k].call].message.parameter[1]
                      = [cells |-> domBoardState.cells,
                         playerState |-> domBoardState.playerState] ]_vars

\* C32 -- response correlation under overlap: when two dispatchWorker
\* calls are outstanding on the same worker at the same time, each call
\* resolves with the response to its own request and not with the
\* response to the other one.  (A response to a request whose call had
\* already timed out when this call was made is the case of C13 and is
\* left aside here.)
C32_ResponseCorrelation ==
    \A k \in 1 .. Len(calls) :
        (calls[k].outcome.state = "resolved" /\ calls[k].settledBy = "message") =>
            \/ calls[k].outcome.value.id = k
            \/ calls[k].outcome.value.id \in calls[k].after

\* The activation of playBotMove for call c is past the response checks
\* and has not returned: it awaits an animation or the logger.
InHandOff(c) ==
    \E k \in 1 .. Len(tasks) :
        /\ tasks[k].fn = "playBotMove" /\ tasks[k].call = c
        /\ tasks[k].pc \in {"css1", "css2", "logger2"}

\* The move of call c has been applied and its activation has returned,
\* with waitForWebWorker false and the board greyed or its events enabled.
HandedOff(c) ==
    /\ c \in journal.botApplied
    /\ ~InHandOff(c)
    /\ domBoardState.waitForWebWorker = FALSE
    /\ classList.filterGray \/ domBoardState.disableBoardEvents = FALSE

StoredGameIds(objStore) == {record.gameId : record \in objStore}

\* In this step activation k of update returns, having written the first
\* move of a new game.
FirstUpdateReturns(k) ==
    /\ updates[k].pc = "put" /\ updates[k].first
    /\ updates' = RemoveAt(updates, k)
    /\ instances' # instances

C35_ReaderRegistry ==
    \A g \in DOMAIN instances :
        g \in StoredGameIds(replayLog) \/ g = loggerWriter.gameId

\* The records of a game, and the key of its record of a move.
GameRecords(g) == {record \in replayLog : record.gameId = g}

KeyOfMove(g, move) == (CHOOSE record \in GameRecords(g) : record.move = move).id

\* A game some activation of update is evicting.
BeingEvicted(g) ==
    \E k \in 1 .. Len(updates) : g \in Evicted(updates[k].allIndexKeys)

\* C36 -- replay-log record order: per game the store holds a move-0
\* record with lastMove null, then the records 1, 2, 3, ... of the moves
\* applied in that game, in the order they were applied, each once and
\* under keys in that order; the keys are in the game's reader in the
\* same order; after resetGame the next update starts again at move 0
\* under a new game id.
C36_RecordOrder ==
    \A g \in StoredGameIds(replayLog) :
        ~BeingEvicted(g) =>
            /\ \A r1, r2 \in GameRecords(g) : r1.move = r2.move => r1 = r2
            /\ {record.move : record \in GameRecords(g)}
                  = 0 .. (Cardinality(GameRecords(g)) - 1)
            /\ \A record \in GameRecords(g) :
                  IF record.move = 0 THEN record.lastMove = NullLastMove
                  ELSE record.lastMove.gameId = g
            /\ \A r1, r2 \in GameRecords(g) :
                  r1.move < r2.move =>
                     /\ r1.id < r2.id
                     /\ r1.lastMove.applied < r2.lastMove.applied
            /\ g \in DOMAIN instances =>
                  /\ Len(instances[g].primaryKeys) <= Cardinality(GameRecords(g))
                  /\ \A i \in 1 .. Len(instances[g].primaryKeys) :
                        instances[g].primaryKeys[i] = KeyOfMove(g, i - 1)

\* The index of the cursor before and after a call that returned, and
\* the number of keys of the replayed reader.
CursorIndex == cursor.generator.cursorIndex

LastIndex == Len(instances[cursor.gameId].primaryKeys) - 1

\* In this step a fetchRecord call returns a record.
Fetched == Len(cursor'.fetched) = Len(cursor.fetched) + 1 /\ ~cursor'.threw

\* The argument of the call of this step, and of the call before it.
Argument == cursor'.fetched[Len(cursor'.fetched)]

ArgumentBefore == cursor.fetched[Len(cursor.fetched)]

\* The cursor rules of fetchRecord: the index stays within
\* [0, length - 1] and the call returns the record at the cursor; the
\* first call on a fresh reader goes to the last record whatever its
\* argument, later Infinity goes to the last one, -Infinity to the first
\* one, an integer k moves by k, clamped.
CursorRules ==
    Fetched =>
       /\ CursorIndex' \in 0 .. LastIndex
       /\ cursor'.record = storeGet(replayLog, instances[cursor.gameId].primaryKeys[CursorIndex' + 1])
       /\ cursor'.record.move = CursorIndex'
       /\ cursor.fetched = << >> => CursorIndex' = LastIndex
       /\ (cursor.fetched # << >> /\ Argument = StepsInfinity) => CursorIndex' = LastIndex
       /\ (cursor.fetched # << >> /\ Argument = StepsMinusInfinity) => CursorIndex' = 0
       /\ (cursor.fetched # << >> /\ Argument.inf = 0) =>
              CursorIndex' = Max(0, Min(LastIndex, CursorIndex + Argument.by))

\* C37 as stated -- the cursor rules, and so fetchRecord(-Infinity)
\* followed by fetchRecord(k), k >= 0, returns the record at index
\* min(k, length - 1).
C37_ReplayCursorAsStated ==
    [][ /\ CursorRules
        /\ (Fetched /\ cursor.fetched # << >> /\ ~cursor.threw
               /\ ArgumentBefore = StepsMinusInfinity
               /\ Argument.inf = 0 /\ Argument.by >= 0) =>
              cursor'.record.move = Min(Argument.by, LastIndex) ]_vars

\* C37 -- replay cursor, amended: the cursor rules hold, and
\* fetchRecord(-Infinity) followed by fetchRecord(k), k >= 0, returns the
\* record at index min(k, length - 1) unless that fetchRecord(-Infinity)
\* was the first call on a fresh reader; then it left the cursor on the
\* record that was the last one and fetchRecord(k) steps on from there.
C37_ReplayCursor ==
    [][ /\ CursorRules
        /\ (Fetched /\ cursor.fetched # << >> /\ ~cursor.threw
               /\ ArgumentBefore = StepsMinusInfinity
               /\ Argument.inf = 0 /\ Argument.by >= 0) =>
              cursor'.record.move = IF Len(cursor.fetched) = 1
                                    THEN Min(CursorIndex + Argument.by, LastIndex)
                                    ELSE Min(Argument.by, LastIndex) ]_vars

\* A reader of three records was sent to the first record by a second
\* call fetchRecord(-Infinity) and then one step on by fetchRecord(1),
\* which returned the record of move 1.
C37_Witness ==
    /\ Len(cursor.fetched) = 3
    /\ cursor.fetched[2] = StepsMinusInfinity
    /\ cursor.fetched[3] = Steps(1)
    /\ ~cursor.threw
    /\ LastIndex = 2
    /\ cursor.record.move = 1

\* After a call that resolved the settings in memory and the records of
\* the store are the factory ones; during a call and after one that
\* rejected the settings in memory are those of before the call.
RestoredOrKept ==
    /\ (restore.outcome = "resolved") =>
          (/\ settings = factorySettings
           /\ \A k \in 1 .. Len(SettingsGroups) :
                 restore.store[SettingsGroups[k]] = factorySettings[SettingsGroups[k]])
    /\ (restore.outcome \in {"pending", "rejected"}) => (settings = restore.before)

====
